---- MODULE Spec2Model ----
(***************************************************************************)
(* Model of the Relicta Docker plugin (plugin.go): configuration parsing,  *)
(* the validators, tag-template resolution and the login / build / push    *)
(* orchestration of buildAndPush.                                          *)
(*                                                                         *)
(* Go strings are modelled as sequences of one-character strings, so that  *)
(* ReplaceAll, Split, TrimPrefix, the regular expressions and Sprintf's    *)
(* concatenations are computed character by character.                     *)
(***************************************************************************)
EXTENDS Integers, Sequences, FiniteSets, TLC

(***************************************************************************)
(* Bounds of the model.                                                    *)
(***************************************************************************)
\* longest tag-template list drawn freely from Templates
MaxTags == 2
\* largest number of request fields that differ from the base request
MaxNonDefault == 3
\* longest path drawn from the path alphabet
MaxPathLen == 5
\* longest image name, registry or key drawn from its alphabet
MaxNameLen == 4

(***************************************************************************)
(* Character classes used by the regular expressions (plugin.go 19-36).    *)
(***************************************************************************)
Lower == {"a","b","c","d","e","f","g","h","i","j","k","l","m",
          "n","o","p","q","r","s","t","u","v","w","x","y","z"}
Upper == {"A","B","C","D","E","F","G","H","I","J","K","L","M",
          "N","O","P","Q","R","S","T","U","V","W","X","Y","Z"}
Digit == {"0","1","2","3","4","5","6","7","8","9"}
Letter == Lower \cup Upper
Alnum == Letter \cup Digit

(***************************************************************************)
(* The strings package, on character sequences.                            *)
(***************************************************************************)
\* strings.HasPrefix
HasPrefix(s, p) == Len(s) >= Len(p) /\ SubSeq(s, 1, Len(p)) = p

\* strings.TrimPrefix: removes one leading occurrence of p
TrimPrefix(s, p) == IF HasPrefix(s, p) THEN SubSeq(s, Len(p) + 1, Len(s)) ELSE s

\* strings.Contains
Contains(s, sub) ==
    \E i \in 1..(Len(s) - Len(sub) + 1) : SubSeq(s, i, i + Len(sub) - 1) = sub

\* only the first match replaced (strings.Replace with n = 1)
RECURSIVE ReplaceAll_FirstOnly(_, _, _)
ReplaceAll_FirstOnly(s, old, new) ==
    IF Len(s) < Len(old) THEN s
    ELSE IF SubSeq(s, 1, Len(old)) = old
         THEN new \o SubSeq(s, Len(old) + 1, Len(s))
         ELSE <<Head(s)>> \o ReplaceAll_FirstOnly(Tail(s), old, new)

\* strings.ReplaceAll for a non-empty old: leftmost non-overlapping matches
\* of old in s are replaced by new; the inserted text is not rescanned
RECURSIVE ReplaceAll(_, _, _)
ReplaceAll(s, old, new) ==
    IF Len(s) < Len(old) THEN s
    ELSE IF SubSeq(s, 1, Len(old)) = old
         THEN new \o ReplaceAll(SubSeq(s, Len(old) + 1, Len(s)), old, new)
         ELSE <<Head(s)>> \o ReplaceAll(Tail(s), old, new)

\* strings.Split for a one-character separator: always at least one part
RECURSIVE Split(_, _)
Split(s, sep) ==
    IF \A i \in 1..Len(s) : s[i] # sep THEN <<s>>
    ELSE LET i == CHOOSE k \in 1..Len(s) :
                      s[k] = sep /\ \A j \in 1..(k - 1) : s[j] # sep
         IN  <<SubSeq(s, 1, i - 1)>> \o Split(SubSeq(s, i + 1, Len(s)), sep)

\* strings.Join
RECURSIVE Join(_, _)
Join(parts, sep) ==
    IF Len(parts) = 0 THEN <<>>
    ELSE IF Len(parts) = 1 THEN parts[1]
    ELSE parts[1] \o sep \o Join(Tail(parts), sep)

\* every character of s[from..to] is in class
AllIn(s, from, to, class) == \A i \in from..to : s[i] \in class

(***************************************************************************)
(* String literals of the program.                                         *)
(***************************************************************************)
EmptyStr == <<>>
DockerIO == <<"d","o","c","k","e","r",".","i","o">>
DefaultDockerfile == <<"D","o","c","k","e","r","f","i","l","e">>
Dot == <<".">>
DotDot == <<".",".">>
Slash == <<"/">>
Colon == <<":">>
PhVersion == <<"{","{","v","e","r","s","i","o","n","}","}">>
PhMajor == <<"{","{","m","a","j","o","r","}","}">>
PhMinor == <<"{","{","m","i","n","o","r","}","}">>
PhPatch == <<"{","{","p","a","t","c","h","}","}">>
Latest == <<"l","a","t","e","s","t">>
DefaultTags_VersionOnly == <<PhVersion>>
DefaultTags == <<PhVersion, Latest>>
ArgDocker == <<"d","o","c","k","e","r">>
ArgLogin == <<"l","o","g","i","n">>
ArgBuild == <<"b","u","i","l","d">>
ArgPush == <<"p","u","s","h">>
ArgU == <<"-","u">>
ArgPasswordStdin == <<"-","-","p","a","s","s","w","o","r","d","-","s","t","d","i","n">>
ArgT == <<"-","t">>
ArgF == <<"-","f">>
ArgBuildArg == <<"-","-","b","u","i","l","d","-","a","r","g">>
ArgVersionEq == <<"V","E","R","S","I","O","N","=">>
ArgPlatform == <<"-","-","p","l","a","t","f","o","r","m">>
ArgLabel == <<"-","-","l","a","b","e","l">>
ArgCacheFrom == <<"-","-","c","a","c","h","e","-","f","r","o","m">>
ArgNoCache == <<"-","-","n","o","-","c","a","c","h","e">>
ArgTarget == <<"-","-","t","a","r","g","e","t">>

(***************************************************************************)
(* Validators (plugin.go 38-126).  Each returns "" for a nil error and the *)
(* error text otherwise.                                                   *)
(***************************************************************************)
MaxImageNameLen == 256
MaxTagLen == 128
MaxRegistryLen == 256
MaxLabelKeyLen == 256

\* ^[a-zA-Z0-9][a-zA-Z0-9._/-]*[a-zA-Z0-9]$
imageNamePattern(s) ==
    /\ Len(s) >= 2
    /\ s[1] \in Alnum
    /\ s[Len(s)] \in Alnum
    /\ AllIn(s, 2, Len(s) - 1, Alnum \cup {".", "_", "/", "-"})

\* ^[a-zA-Z0-9][a-zA-Z0-9._-]*$
tagPattern(s) ==
    /\ Len(s) >= 1
    /\ s[1] \in Alnum
    /\ AllIn(s, 2, Len(s), Alnum \cup {".", "_", "-"})

\* ^[a-zA-Z0-9][a-zA-Z0-9.-]*(:[0-9]+)?$
registryPattern(s) ==
    LET Host(h) == /\ Len(h) >= 1
                   /\ h[1] \in Alnum
                   /\ AllIn(h, 2, Len(h), Alnum \cup {".", "-"})
    IN  \/ Host(s)
        \/ \E i \in 2..(Len(s) - 1) :
              /\ s[i] = ":"
              /\ Host(SubSeq(s, 1, i - 1))
              /\ AllIn(s, i + 1, Len(s), Digit)

\* hyphens allowed after the first character
buildArgKeyPattern_HyphenAllowed(s) ==
    /\ Len(s) >= 1
    /\ s[1] \in Letter \cup {"_"}
    /\ AllIn(s, 2, Len(s), Alnum \cup {"_", "-"})

\* ^[a-zA-Z_][a-zA-Z0-9_]*$
buildArgKeyPattern(s) ==
    /\ Len(s) >= 1
    /\ s[1] \in Letter \cup {"_"}
    /\ AllIn(s, 2, Len(s), Alnum \cup {"_"})

\* ^[a-zA-Z][a-zA-Z0-9._-]*[a-zA-Z0-9]$
labelKeyPattern(s) ==
    /\ Len(s) >= 2
    /\ s[1] \in Letter
    /\ s[Len(s)] \in Alnum
    /\ AllIn(s, 2, Len(s) - 1, Alnum \cup {".", "_", "-"})

\* the check for '..' left out
validateImageName_DotDotAllowed(name) ==
    IF name = EmptyStr THEN "image name cannot be empty"
    ELSE IF Len(name) > MaxImageNameLen THEN "image name too long (max 256 characters)"
    ELSE IF ~imageNamePattern(name) THEN "invalid image name: contains disallowed characters"
    ELSE ""

validateImageName(name) ==
    IF name = EmptyStr THEN "image name cannot be empty"
    ELSE IF Len(name) > MaxImageNameLen THEN "image name too long (max 256 characters)"
    ELSE IF ~imageNamePattern(name) THEN "invalid image name: contains disallowed characters"
    ELSE IF Contains(name, DotDot) THEN "image name cannot contain '..'"
    ELSE ""

validateTag(tag) ==
    IF tag = EmptyStr THEN "tag cannot be empty"
    ELSE IF Len(tag) > MaxTagLen THEN "tag too long (max 128 characters)"
    ELSE IF ~tagPattern(tag) THEN "invalid tag: contains disallowed characters"
    ELSE ""

\* the length check left out
validateRegistry_AnyLength(registry) ==
    IF registry = EmptyStr \/ registry = DockerIO THEN ""
    ELSE IF ~registryPattern(registry) THEN "invalid registry URL format"
    ELSE ""

validateRegistry(registry) ==
    IF registry = EmptyStr \/ registry = DockerIO THEN ""
    ELSE IF Len(registry) > MaxRegistryLen THEN "registry URL too long"
    ELSE IF ~registryPattern(registry) THEN "invalid registry URL format"
    ELSE ""

validateBuildArgKey(key) ==
    IF ~buildArgKeyPattern(key)
    THEN "invalid build arg key: must be alphanumeric with underscores"
    ELSE ""

validateLabelKey(key) ==
    IF key = EmptyStr THEN "label key cannot be empty"
    ELSE IF Len(key) > MaxLabelKeyLen THEN "label key too long (max 256 characters)"
    ELSE IF ~labelKeyPattern(key)
    THEN "invalid label key: must be alphanumeric with dots, dashes, or underscores"
    ELSE ""

\* filepath.Clean on a slash-separated path: empty and "." elements are
\* dropped, ".." removes the element before it (or is kept at the front of
\* a relative path, or dropped at the root)
RECURSIVE CleanElems(_, _, _)
CleanElems(elems, out, rooted) ==
    IF Len(elems) = 0 THEN out
    ELSE LET e == Head(elems)
             rest == Tail(elems)
         IN  IF e = EmptyStr \/ e = Dot THEN CleanElems(rest, out, rooted)
             ELSE IF e = DotDot
                  THEN IF Len(out) > 0 /\ out[Len(out)] # DotDot
                       THEN CleanElems(rest, SubSeq(out, 1, Len(out) - 1), rooted)
                       ELSE IF rooted THEN CleanElems(rest, out, rooted)
                       ELSE CleanElems(rest, Append(out, DotDot), rooted)
             ELSE CleanElems(rest, Append(out, e), rooted)

Clean(path) ==
    IF path = EmptyStr THEN Dot
    ELSE LET rooted == path[1] = "/"
             joined == Join(CleanElems(Split(path, "/"), <<>>, rooted), Slash)
         IN  IF rooted THEN Slash \o joined
             ELSE IF joined = EmptyStr THEN Dot
             ELSE joined

\* filepath.IsAbs
IsAbs(path) == HasPrefix(path, Slash)

\* the path checked as written, not cleaned
validatePath_NotCleaned(path) ==
    IF path = EmptyStr THEN ""
    ELSE IF IsAbs(path) THEN "absolute paths are not allowed"
    ELSE IF HasPrefix(path, DotDot) \/ Contains(path, Slash \o DotDot)
    THEN "path traversal detected: cannot use '..' to escape working directory"
    ELSE ""

validatePath(path) ==
    IF path = EmptyStr THEN ""
    ELSE LET cleaned == Clean(path)
         IN  IF IsAbs(cleaned) THEN "absolute paths are not allowed"
             ELSE IF HasPrefix(cleaned, DotDot) \/ Contains(cleaned, Slash \o DotDot)
             THEN "path traversal detected: cannot use '..' to escape working directory"
             ELSE ""

(***************************************************************************)
(* Raw configuration values.  A key of the raw map is absent (None) or     *)
(* present (Some(v)).                                                      *)
(***************************************************************************)
None == <<>>
Some(v) == <<v>>

\* helpers.ConfigParser.GetString as parseConfig uses it: the configured
\* string when present and non-empty, else the environment variable when
\* one is named and set, else the default
GetString(opt, envVal, default) ==
    IF opt # None /\ opt[1] # EmptyStr THEN opt[1]
    ELSE IF envVal # EmptyStr THEN envVal
    ELSE default

\* helpers.ConfigParser.GetStringSlice(key, nil)
GetStringSlice(opt) == IF opt # None THEN opt[1] ELSE <<>>

\* helpers.ConfigParser.GetBool(key, default)
GetBool(opt, default) == IF opt # None THEN opt[1] ELSE default

\* getStringMap: the entries of a raw map whose value is a string; a raw
\* map is a function from keys to [str : BOOLEAN, val : string]
getStringMap(opt) ==
    IF opt = None THEN << >>
    ELSE LET m == opt[1]
             keys == {k \in DOMAIN m : m[k].str}
         IN  [k \in keys |-> m[k].val]

\* push defaulting to false
parseConfig_PushDefaultFalse(raw, env) ==
    [ Registry   |-> GetString(raw.registry, EmptyStr, DockerIO),
      Image      |-> GetString(raw.image, EmptyStr, EmptyStr),
      Tags       |-> GetStringSlice(raw.tags),
      Dockerfile |-> GetString(raw.dockerfile, EmptyStr, DefaultDockerfile),
      Context    |-> GetString(raw.context, EmptyStr, Dot),
      BuildArgs  |-> getStringMap(raw.build_args),
      Platforms  |-> GetStringSlice(raw.platforms),
      Username   |-> GetString(raw.username, env.DOCKER_USERNAME, EmptyStr),
      Password   |-> GetString(raw.password, env.DOCKER_PASSWORD, EmptyStr),
      Push       |-> GetBool(raw.push, FALSE),
      Labels     |-> getStringMap(raw.labels),
      CacheFrom  |-> GetStringSlice(raw.cache_from),
      NoCache    |-> GetBool(raw.no_cache, FALSE),
      Target     |-> GetString(raw.target, EmptyStr, EmptyStr) ]

parseConfig(raw, env) ==
    [ Registry   |-> GetString(raw.registry, EmptyStr, DockerIO),
      Image      |-> GetString(raw.image, EmptyStr, EmptyStr),
      Tags       |-> GetStringSlice(raw.tags),
      Dockerfile |-> GetString(raw.dockerfile, EmptyStr, DefaultDockerfile),
      Context    |-> GetString(raw.context, EmptyStr, Dot),
      BuildArgs  |-> getStringMap(raw.build_args),
      Platforms  |-> GetStringSlice(raw.platforms),
      Username   |-> GetString(raw.username, env.DOCKER_USERNAME, EmptyStr),
      Password   |-> GetString(raw.password, env.DOCKER_PASSWORD, EmptyStr),
      Push       |-> GetBool(raw.push, TRUE),
      Labels     |-> getStringMap(raw.labels),
      CacheFrom  |-> GetStringSlice(raw.cache_from),
      NoCache    |-> GetBool(raw.no_cache, FALSE),
      Target     |-> GetString(raw.target, EmptyStr, EmptyStr) ]

(***************************************************************************)
(* Responses.  An error message built by Sprintf is kept as its parts:     *)
(* the fixed prefix (kind), the quoted value it names (subject) and the    *)
(* text of the underlying error (cause).                                   *)
(***************************************************************************)
NoError == [kind |-> "", subject |-> EmptyStr, cause |-> ""]
MkError(kind, subject, cause) == [kind |-> kind, subject |-> subject, cause |-> cause]

NoOutputs == [keys |-> {}, image |-> EmptyStr, tags |-> <<>>,
              registry |-> EmptyStr, pushed |-> FALSE]

NoMessage == [text |-> "", hook |-> "", n |-> 0]

\* GoError is the second value Execute returns: always nil
NoResponse == [Success |-> FALSE, Message |-> NoMessage,
               Error |-> NoError, Outputs |-> NoOutputs, GoError |-> "nil"]

\* helpers.ValidationBuilder.Build: valid iff no error was added
MkValidateResponse(errors) == [Valid |-> Len(errors) = 0, Errors |-> errors, GoError |-> "nil"]
NoValidateResponse == MkValidateResponse(<<>>)

\* no pure function applied
NoProbe == [fn |-> "", args |-> <<>>, done |-> FALSE, out |-> <<>>, err |-> ""]

FailureResponse(err) ==
    [Success |-> FALSE, Message |-> NoMessage, Error |-> err, Outputs |-> NoOutputs,
     GoError |-> "nil"]

\* an unhandled hook reported as a failure
NotHandledResponse_Failure(hook) ==
    [Success |-> FALSE,
     Message |-> [text |-> "Hook %s not handled", hook |-> hook, n |-> 0],
     Error |-> NoError, Outputs |-> NoOutputs, GoError |-> "nil"]

\* Execute, default branch of the hook switch
NotHandledResponse(hook) ==
    [Success |-> TRUE,
     Message |-> [text |-> "Hook %s not handled", hook |-> hook, n |-> 0],
     Error |-> NoError, Outputs |-> NoOutputs, GoError |-> "nil"]

DryRunResponse(cfg, resolvedTags) ==
    [Success |-> TRUE,
     Message |-> [text |-> "Would build and push Docker image", hook |-> "", n |-> 0],
     Error |-> NoError,
     Outputs |-> [keys |-> {"image", "tags", "registry"}, image |-> cfg.Image,
                  tags |-> resolvedTags, registry |-> cfg.Registry, pushed |-> FALSE],
     GoError |-> "nil"]

SuccessResponse(cfg, resolvedTags) ==
    [Success |-> TRUE,
     Message |-> [text |-> "Built and pushed Docker image with %d tags", hook |-> "",
                  n |-> Len(resolvedTags)],
     Error |-> NoError,
     Outputs |-> [keys |-> {"image", "tags", "pushed"}, image |-> cfg.Image,
                  tags |-> resolvedTags, registry |-> EmptyStr, pushed |-> cfg.Push],
     GoError |-> "nil"]

(***************************************************************************)
(* buildAndPush, the part before the first external command                *)
(* (plugin.go 226-325).                                                    *)
(***************************************************************************)
\* a range loop that may leave keys unvisited
Orders_MaySkip(keys) ==
    {o \in UNION {[1..n -> keys] : n \in 0..Cardinality(keys)} :
        \A i, j \in DOMAIN o : i # j => o[i] # o[j]}

\* the orders in which a range loop may visit the keys of a Go map
Orders(keys) ==
    {o \in [1..Cardinality(keys) -> keys] : \A i, j \in DOMAIN o : i # j => o[i] # o[j]}

\* the loop "for key := range m": error for the first key, in visiting
\* order, that the validator rejects
RECURSIVE FirstBadKey(_, _, _)
FirstBadKey(order, i, kind) ==
    IF i > Len(order) THEN NoError
    ELSE LET cause == IF kind = "invalid build arg key"
                      THEN validateBuildArgKey(order[i])
                      ELSE validateLabelKey(order[i])
         IN  IF cause # "" THEN MkError(kind, order[i], cause)
             ELSE FirstBadKey(order, i + 1, kind)

\* the two path checks left out
ConfigError_PathsUnchecked(cfg, argOrder, labelOrder) ==
    IF validateImageName(cfg.Image) # ""
    THEN MkError("invalid image configuration", EmptyStr, validateImageName(cfg.Image))
    ELSE IF validateRegistry(cfg.Registry) # ""
    THEN MkError("invalid registry configuration", EmptyStr, validateRegistry(cfg.Registry))
    ELSE IF FirstBadKey(argOrder, 1, "invalid build arg key") # NoError
    THEN FirstBadKey(argOrder, 1, "invalid build arg key")
    ELSE FirstBadKey(labelOrder, 1, "invalid label key")

\* the same checks with the registry checked before the image name
ConfigError_RegistryFirst(cfg, argOrder, labelOrder) ==
    IF validateRegistry(cfg.Registry) # ""
    THEN MkError("invalid registry configuration", EmptyStr, validateRegistry(cfg.Registry))
    ELSE IF validateImageName(cfg.Image) # ""
    THEN MkError("invalid image configuration", EmptyStr, validateImageName(cfg.Image))
    ELSE IF validatePath(cfg.Dockerfile) # ""
    THEN MkError("invalid dockerfile path", EmptyStr, validatePath(cfg.Dockerfile))
    ELSE IF validatePath(cfg.Context) # ""
    THEN MkError("invalid build context path", EmptyStr, validatePath(cfg.Context))
    ELSE IF FirstBadKey(argOrder, 1, "invalid build arg key") # NoError
    THEN FirstBadKey(argOrder, 1, "invalid build arg key")
    ELSE FirstBadKey(labelOrder, 1, "invalid label key")

\* the security validation of the configuration fields, lines 228-274
ConfigError(cfg, argOrder, labelOrder) ==
    IF validateImageName(cfg.Image) # ""
    THEN MkError("invalid image configuration", EmptyStr, validateImageName(cfg.Image))
    ELSE IF validateRegistry(cfg.Registry) # ""
    THEN MkError("invalid registry configuration", EmptyStr, validateRegistry(cfg.Registry))
    ELSE IF validatePath(cfg.Dockerfile) # ""
    THEN MkError("invalid dockerfile path", EmptyStr, validatePath(cfg.Dockerfile))
    ELSE IF validatePath(cfg.Context) # ""
    THEN MkError("invalid build context path", EmptyStr, validatePath(cfg.Context))
    ELSE IF FirstBadKey(argOrder, 1, "invalid build arg key") # NoError
    THEN FirstBadKey(argOrder, 1, "invalid build arg key")
    ELSE FirstBadKey(labelOrder, 1, "invalid label key")

\* every leading 'v' removed (TrimLeft in place of TrimPrefix)
RECURSIVE TrimmedVersion_AllLeading(_)
TrimmedVersion_AllLeading(rawVersion) ==
    IF HasPrefix(rawVersion, <<"v">>)
    THEN TrimmedVersion_AllLeading(Tail(rawVersion))
    ELSE rawVersion

\* lines 276-288
TrimmedVersion(rawVersion) == TrimPrefix(rawVersion, <<"v">>)
VersionPart(version, i) ==
    LET parts == Split(version, ".")
    IN  IF Len(parts) >= i THEN parts[i] ELSE EmptyStr

\* {{patch}} replaced by the minor component
ResolveTemplate_PatchIsMinor(tag, version) ==
    LET r1 == ReplaceAll(tag, PhVersion, version)
        r2 == ReplaceAll(r1, PhMajor, VersionPart(version, 1))
        r3 == ReplaceAll(r2, PhMinor, VersionPart(version, 2))
    IN  ReplaceAll(r3, PhPatch, VersionPart(version, 2))

\* lines 297-301
ResolveTemplate(tag, version) ==
    LET r1 == ReplaceAll(tag, PhVersion, version)
        r2 == ReplaceAll(r1, PhMajor, VersionPart(version, 1))
        r3 == ReplaceAll(r2, PhMinor, VersionPart(version, 2))
    IN  ReplaceAll(r3, PhPatch, VersionPart(version, 3))

\* lines 290-293
EffectiveTags(cfg) == IF Len(cfg.Tags) = 0 THEN DefaultTags ELSE cfg.Tags

\* the loop with an invalid resolved tag skipped instead of aborting
RECURSIVE ResolveTags_SkipInvalid(_, _, _)
ResolveTags_SkipInvalid(tags, version, acc) ==
    IF Len(tags) = 0 THEN [tags |-> acc, err |-> NoError]
    ELSE LET resolved == ResolveTemplate(Head(tags), version)
         IN  IF resolved = EmptyStr \/ validateTag(resolved) # ""
             THEN ResolveTags_SkipInvalid(Tail(tags), version, acc)
             ELSE ResolveTags_SkipInvalid(Tail(tags), version, Append(acc, resolved))

\* the loop without the skip of empty resolved tags
RECURSIVE ResolveTags_EmptyNotSkipped(_, _, _)
ResolveTags_EmptyNotSkipped(tags, version, acc) ==
    IF Len(tags) = 0 THEN [tags |-> acc, err |-> NoError]
    ELSE LET resolved == ResolveTemplate(Head(tags), version)
         IN  IF validateTag(resolved) # ""
             THEN [tags |-> acc, err |-> MkError("invalid tag", resolved, validateTag(resolved))]
             ELSE ResolveTags_EmptyNotSkipped(Tail(tags), version, Append(acc, resolved))

\* the loop of lines 295-316: the resolved tags collected so far and the
\* error of the first resolved tag that validateTag rejects
RECURSIVE ResolveTags(_, _, _)
ResolveTags(tags, version, acc) ==
    IF Len(tags) = 0 THEN [tags |-> acc, err |-> NoError]
    ELSE LET resolved == ResolveTemplate(Head(tags), version)
         IN  IF resolved = EmptyStr THEN ResolveTags(Tail(tags), version, acc)
             ELSE IF validateTag(resolved) # ""
             THEN [tags |-> acc, err |-> MkError("invalid tag", resolved, validateTag(resolved))]
             ELSE ResolveTags(Tail(tags), version, Append(acc, resolved))

\* every non-empty registry prefixed, docker.io included
QualifiedName_DefaultHostPrefixed(cfg) ==
    IF cfg.Registry # EmptyStr THEN cfg.Registry \o Slash \o cfg.Image ELSE cfg.Image

\* lines 320-323
QualifiedName(cfg) ==
    IF cfg.Registry # EmptyStr /\ cfg.Registry # DockerIO
    THEN cfg.Registry \o Slash \o cfg.Image
    ELSE cfg.Image

\* lines 318-325
ImageNames(cfg, resolvedTags) ==
    [i \in 1..Len(resolvedTags) |-> QualifiedName(cfg) \o Colon \o resolvedTags[i]]

(***************************************************************************)
(* The external commands (plugin.go 377-441).  A call is what the executor *)
(* receives: the program name, the argument list and the standard input    *)
(* (None for a nil reader).                                                *)
(***************************************************************************)
MkCall(args, stdin) == [name |-> ArgDocker, args |-> args, stdin |-> stdin]

\* the password passed as an argument
dockerLoginCall_PasswordAsArg(cfg) ==
    LET registry == IF cfg.Registry = EmptyStr \/ cfg.Registry = DockerIO
                    THEN EmptyStr ELSE cfg.Registry
        regArgs == IF registry # EmptyStr THEN <<registry>> ELSE <<>>
    IN  MkCall(<<ArgLogin>> \o regArgs \o <<ArgU, cfg.Username, <<"-","p">>, cfg.Password>>,
               None)

dockerLoginCall(cfg) ==
    LET registry == IF cfg.Registry = EmptyStr \/ cfg.Registry = DockerIO
                    THEN EmptyStr ELSE cfg.Registry
        regArgs == IF registry # EmptyStr THEN <<registry>> ELSE <<>>
    IN  MkCall(<<ArgLogin>> \o regArgs \o <<ArgU, cfg.Username, ArgPasswordStdin>>,
               Some(cfg.Password))

\* one "flag value" pair per element of values, in order
RECURSIVE FlagPairs(_, _)
FlagPairs(flag, values) ==
    IF Len(values) = 0 THEN <<>>
    ELSE <<flag, Head(values)>> \o FlagPairs(flag, Tail(values))

\* the "key=value" strings of a map visited in the given key order
KeyValues(m, order) == [i \in 1..Len(order) |-> order[i] \o <<"=">> \o m[order[i]]]

\* VERSION given without the leading 'v'
dockerBuildCall_VersionStripped(cfg, imageNames, rawVersion, argOrder, labelOrder) ==
    LET dockerfile == IF cfg.Dockerfile = EmptyStr THEN DefaultDockerfile ELSE cfg.Dockerfile
        platformArgs == IF Len(cfg.Platforms) > 0
                        THEN <<ArgPlatform, Join(cfg.Platforms, <<",">>)>> ELSE <<>>
        noCacheArgs == IF cfg.NoCache THEN <<ArgNoCache>> ELSE <<>>
        targetArgs == IF cfg.Target # EmptyStr THEN <<ArgTarget, cfg.Target>> ELSE <<>>
        buildContext == IF cfg.Context = EmptyStr THEN Dot ELSE cfg.Context
    IN  MkCall(<<ArgBuild>>
               \o FlagPairs(ArgT, imageNames)
               \o <<ArgF, dockerfile>>
               \o FlagPairs(ArgBuildArg, KeyValues(cfg.BuildArgs, argOrder))
               \o <<ArgBuildArg, ArgVersionEq \o TrimPrefix(rawVersion, <<"v">>)>>
               \o platformArgs
               \o FlagPairs(ArgLabel, KeyValues(cfg.Labels, labelOrder))
               \o FlagPairs(ArgCacheFrom, cfg.CacheFrom)
               \o noCacheArgs
               \o targetArgs
               \o <<buildContext>>,
               None)

dockerBuildCall(cfg, imageNames, rawVersion, argOrder, labelOrder) ==
    LET dockerfile == IF cfg.Dockerfile = EmptyStr THEN DefaultDockerfile ELSE cfg.Dockerfile
        platformArgs == IF Len(cfg.Platforms) > 0
                        THEN <<ArgPlatform, Join(cfg.Platforms, <<",">>)>> ELSE <<>>
        noCacheArgs == IF cfg.NoCache THEN <<ArgNoCache>> ELSE <<>>
        targetArgs == IF cfg.Target # EmptyStr THEN <<ArgTarget, cfg.Target>> ELSE <<>>
        buildContext == IF cfg.Context = EmptyStr THEN Dot ELSE cfg.Context
    IN  MkCall(<<ArgBuild>>
               \o FlagPairs(ArgT, imageNames)
               \o <<ArgF, dockerfile>>
               \o FlagPairs(ArgBuildArg, KeyValues(cfg.BuildArgs, argOrder))
               \o <<ArgBuildArg, ArgVersionEq \o rawVersion>>
               \o platformArgs
               \o FlagPairs(ArgLabel, KeyValues(cfg.Labels, labelOrder))
               \o FlagPairs(ArgCacheFrom, cfg.CacheFrom)
               \o noCacheArgs
               \o targetArgs
               \o <<buildContext>>,
               None)

dockerPushCall(imageName) == MkCall(<<ArgPush, imageName>>, None)

\* the errors the executor's Run may return; "" is nil
ExecErrors == {"mock error", "exit status 1"}
ExecResults == {""} \cup ExecErrors

(***************************************************************************)
(* Requests.  A request differs from BaseRequest (the configuration        *)
(* {image: "o/a"} released as v1.2.3, nothing in the environment) in at    *)
(* most MaxNonDefault of its fields.                                       *)
(***************************************************************************)
HookPostPublish == "post-publish"
HookPreInit == "pre-init"

V123 == <<"v","1",".","2",".","3">>
V12 == <<"v","1",".","2">>
VOnly == <<"v">>
V100NoPrefix == <<"1",".","0",".","0">>
VPlus == <<"v","1",".","+">>

ImgOA == <<"o","/","a">>
ImgDotDot == <<"a",".",".","b">>
RegGhcr == <<"g",".","i","o">>
RegBad == <<"g","_","i","o">>
PathUp == <<".",".","/","D">>
PathAbs == <<"/","x">>
PathApp == <<".","/","a","p","p">>
PathProd == <<"D",".","p">>
TagBad == <<"-","x">>
KeyA == <<"A">>
KeyB == <<"B">>
KeyBadA == <<"A","-">>
KeyBadB == <<"B","-">>
LabelOk == <<"l","1">>
LabelOk2 == <<"l","2">>
LabelBad == <<"-","l">>
LabelBad2 == <<"-","m">>
StrVal(v) == [str |-> TRUE, val |-> v]
NonStrVal == [str |-> FALSE, val |-> EmptyStr]

Templates == {PhVersion, PhMajor, PhPatch, Latest, TagBad}

\* all sequences over S of length at most n
RECURSIVE SeqsUpTo(_, _)
SeqsUpTo(S, n) ==
    IF n = 0 THEN {<<>>}
    ELSE LET shorter == SeqsUpTo(S, n - 1)
         IN  shorter \cup {Append(q, x) : q \in {r \in shorter : Len(r) = n - 1}, x \in S}

TagLists ==
    SeqsUpTo(Templates, MaxTags)
        \cup {<<PhVersion, PhMajor, PhMinor, PhPatch>>,
              <<PhPatch, PhVersion, PhMinor, Latest>>}

FieldNames == {"Hook", "DryRun", "Version", "image", "registry", "dockerfile",
               "context", "build_args", "labels", "tags", "username", "password",
               "env", "push", "platforms", "cache_from", "no_cache", "target"}

NoEnv == [DOCKER_USERNAME |-> EmptyStr, DOCKER_PASSWORD |-> EmptyStr]

BaseField(f) ==
    CASE f = "Hook" -> HookPostPublish
      [] f = "DryRun" -> FALSE
      [] f = "Version" -> V123
      [] f = "image" -> Some(ImgOA)
      [] f = "env" -> NoEnv
      [] OTHER -> None

Alternatives(f) ==
    CASE f = "Hook" -> {HookPreInit}
      [] f = "DryRun" -> {TRUE}
      [] f = "Version" -> {V12, VOnly, V100NoPrefix, VPlus}
      [] f = "image" -> {None, Some(ImgDotDot)}
      [] f = "registry" -> {Some(EmptyStr), Some(RegGhcr), Some(RegBad)}
      [] f = "dockerfile" -> {Some(PathProd), Some(PathUp)}
      [] f = "context" -> {Some(PathApp), Some(PathAbs), Some(<<"-", "x">>)}
      [] f = "build_args" -> {Some(KeyA :> StrVal(<<"1">>) @@ KeyB :> StrVal(<<"2">>)),
                              Some(KeyBadA :> StrVal(<<"1">>) @@ KeyBadB :> StrVal(<<"2">>)),
                              Some(KeyB :> StrVal(<<"2">>) @@ KeyBadA :> NonStrVal)}
      [] f = "labels" -> {Some(LabelOk :> StrVal(<<"x">>) @@ LabelOk2 :> StrVal(<<"y">>)),
                          Some(LabelBad :> StrVal(<<"x">>) @@ LabelBad2 :> StrVal(<<"y">>))}
      [] f = "tags" -> {Some(l) : l \in TagLists}
      [] f = "username" -> {Some(<<"u">>)}
      [] f = "password" -> {Some(<<"p">>)}
      [] f = "env" -> {[DOCKER_USERNAME |-> <<"e","u">>, DOCKER_PASSWORD |-> <<"e","p">>],
                       [DOCKER_USERNAME |-> <<"e","u">>, DOCKER_PASSWORD |-> EmptyStr]}
      [] f = "push" -> {Some(TRUE), Some(FALSE)}
      [] f = "platforms" -> {Some(<<<<"l","/","a">>, <<"l","/","b">>>>)}
      [] f = "cache_from" -> {Some(<<<<"c","1">>, <<"c","2">>>>)}
      [] f = "no_cache" -> {Some(TRUE)}
      [] f = "target" -> {Some(<<"t">>)}

FieldValues(f, changed) == IF f \in changed THEN Alternatives(f) ELSE {BaseField(f)}

\* the requests (with the environment they run in) whose changed fields
\* are exactly the set changed
RequestsChanging(changed) ==
    [ Hook : FieldValues("Hook", changed),
      DryRun : FieldValues("DryRun", changed),
      Version : FieldValues("Version", changed),
      Env : FieldValues("env", changed),
      Config : [ image : FieldValues("image", changed),
                 registry : FieldValues("registry", changed),
                 dockerfile : FieldValues("dockerfile", changed),
                 context : FieldValues("context", changed),
                 build_args : FieldValues("build_args", changed),
                 labels : FieldValues("labels", changed),
                 tags : FieldValues("tags", changed),
                 username : FieldValues("username", changed),
                 password : FieldValues("password", changed),
                 push : FieldValues("push", changed),
                 platforms : FieldValues("platforms", changed),
                 cache_from : FieldValues("cache_from", changed),
                 no_cache : FieldValues("no_cache", changed),
                 target : FieldValues("target", changed) ] ]

ChangedSets == {c \in SUBSET FieldNames : Cardinality(c) <= MaxNonDefault}

\* the zero ExecuteRequest and Config
NoConfig == [ image |-> None, registry |-> None, dockerfile |-> None, context |-> None,
              build_args |-> None, labels |-> None, tags |-> None, username |-> None,
              password |-> None, push |-> None, platforms |-> None, cache_from |-> None,
              no_cache |-> None, target |-> None ]
NoRequest == [Hook |-> "", DryRun |-> FALSE, Version |-> EmptyStr, Env |-> NoEnv,
              Config |-> NoConfig]

(***************************************************************************)
(* Validate (plugin.go 479-540).  An error of the ValidationBuilder is the *)
(* field it is filed under, the validator's message, and the key or tag    *)
(* the message quotes (empty when it quotes none).                         *)
(***************************************************************************)
VError(field, msg, subject) == [field |-> field, msg |-> msg, subject |-> subject]

\* lines 484-489
ImageErrors(raw) ==
    LET image == GetString(raw.image, EmptyStr, EmptyStr)
    IN  IF image = EmptyStr
        THEN <<VError("image", "Docker image name is required", EmptyStr)>>
        ELSE IF validateImageName(image) # ""
        THEN <<VError("image", validateImageName(image), EmptyStr)>>
        ELSE <<>>

\* lines 491-507
RegistryErrors(raw) ==
    LET registry == GetString(raw.registry, EmptyStr, DockerIO)
    IN  IF validateRegistry(registry) # ""
        THEN <<VError("registry", validateRegistry(registry), EmptyStr)>> ELSE <<>>

\* a path check that lets absolute paths through
PathErrors_AbsoluteAllowed(field, opt, default) ==
    LET path == GetString(opt, EmptyStr, default)
    IN  IF validatePath(path) # "" /\ ~IsAbs(path)
        THEN <<VError(field, validatePath(path), EmptyStr)>>
        ELSE <<>>

PathErrors(field, opt, default) ==
    LET path == GetString(opt, EmptyStr, default)
    IN  IF validatePath(path) # "" THEN <<VError(field, validatePath(path), EmptyStr)>>
        ELSE <<>>

\* the keys of a raw map, whatever their values; none when the key is absent
RawKeys(opt) == IF opt = None THEN {} ELSE DOMAIN opt[1]

\* lines 509-525: one error per failing key, in the order the map is ranged
RECURSIVE KeyErrors(_, _, _)
KeyErrors(field, order, i) ==
    IF i > Len(order) THEN <<>>
    ELSE LET msg == IF field = "build_args" THEN validateBuildArgKey(order[i])
                    ELSE validateLabelKey(order[i])
         IN  (IF msg # "" THEN <<VError(field, msg, order[i])>> ELSE <<>>)
                 \o KeyErrors(field, order, i + 1)

\* template tags validated like the others
RECURSIVE TagErrors_TemplatesChecked(_, _)
TagErrors_TemplatesChecked(tags, i) ==
    IF i > Len(tags) THEN <<>>
    ELSE (IF validateTag(tags[i]) # ""
          THEN <<VError("tags", validateTag(tags[i]), tags[i])>> ELSE <<>>)
             \o TagErrors_TemplatesChecked(tags, i + 1)

\* lines 527-537
RECURSIVE TagErrors(_, _)
TagErrors(tags, i) ==
    IF i > Len(tags) THEN <<>>
    ELSE (IF ~Contains(tags[i], <<"{","{">>) /\ validateTag(tags[i]) # ""
          THEN <<VError("tags", validateTag(tags[i]), tags[i])>> ELSE <<>>)
             \o TagErrors(tags, i + 1)

ValidateErrors(raw, argOrder, labelOrder) ==
    ImageErrors(raw)
        \o RegistryErrors(raw)
        \o PathErrors("dockerfile", raw.dockerfile, DefaultDockerfile)
        \o PathErrors("context", raw.context, Dot)
        \o KeyErrors("build_args", argOrder, 1)
        \o KeyErrors("labels", labelOrder, 1)
        \o TagErrors(GetStringSlice(raw.tags), 1)

\* the raw configurations handed to Validate: those of the requests, and
\* those with an empty image string
ConfigChangedSets ==
    {c \in SUBSET (FieldNames \ {"Hook", "DryRun", "Version", "env"}) :
        Cardinality(c) <= MaxNonDefault}
ConfigsChanging(changed) ==
    LET configs == {r.Config : r \in RequestsChanging(changed)}
    IN  IF "image" \in changed
        THEN configs \cup {[c EXCEPT !.image = Some(EmptyStr)] : c \in configs}
        ELSE configs

(***************************************************************************)
(* State.                                                                  *)
(***************************************************************************)
VARIABLES
    pc,            \* where the plugin is: "idle", in Execute at "login", "build",
                   \* "push" or "done", or after Validate at "validated"
    req,           \* the ExecuteRequest being served, with its environment
    cfg,           \* the Config parsed from req.Config
    resolvedTags,  \* buildAndPush's resolvedTags
    imageNames,    \* buildAndPush's imageNames
    pushIdx,       \* index of the next imageNames element of the push loop
    calls,         \* the calls the executor has received from this Execute
    results,       \* what the executor returned for each of them
    resp,          \* the ExecuteResponse, meaningful when pc = "done"
    vconfig,       \* the raw configuration handed to Validate
    vresp,         \* the ValidateResponse, meaningful when pc = "validated"
    probe,         \* one application of a pure function: its input and result
    plugin         \* the DockerPlugin value: its executor field

vars == <<pc, req, cfg, resolvedTags, imageNames, pushIdx, calls, results, resp,
          vconfig, vresp, probe, plugin>>

\* main.go: the plugin is served as &DockerPlugin{}, its executor field nil
NewDockerPlugin == [executor |-> "nil"]

\* a getExecutor that keeps the executor it creates in the plugin
getExecutor_Cached(p) ==
    IF p.executor # "nil"
    THEN [plugin |-> p, executor |-> p.executor]
    ELSE [plugin |-> [p EXCEPT !.executor = "RealCommandExecutor"],
          executor |-> "RealCommandExecutor"]

\* the executor a command is run with, and the plugin afterwards: the field
\* is read, never assigned
getExecutor(p) ==
    IF p.executor # "nil"
    THEN [plugin |-> p, executor |-> p.executor]
    ELSE [plugin |-> p, executor |-> "RealCommandExecutor"]

Init ==
    /\ pc = "idle"
    /\ req = NoRequest
    /\ cfg = parseConfig(NoConfig, NoEnv)
    /\ resolvedTags = <<>>
    /\ imageNames = <<>>
    /\ pushIdx = 0
    /\ calls = <<>>
    /\ results = <<>>
    /\ resp = NoResponse
    /\ vconfig = NoConfig
    /\ vresp = NoValidateResponse
    /\ probe = NoProbe
    /\ plugin = NewDockerPlugin

\* a login attempted as soon as one of the two credentials is present
HasCredentials_Either(c) == c.Username # EmptyStr \/ c.Password # EmptyStr

HasCredentials(c) == c.Username # EmptyStr /\ c.Password # EmptyStr

\* what buildAndPush computes before it runs a command: the configuration
\* error or the tag error if any, the resolved tags and the image names
Prepared(c, rawVersion, argOrder, labelOrder) ==
    LET cerr == ConfigError(c, argOrder, labelOrder)
        res == ResolveTags(EffectiveTags(c), TrimmedVersion(rawVersion), <<>>)
    IN  IF cerr # NoError
        THEN [err |-> cerr, tags |-> <<>>, names |-> <<>>]
        ELSE IF res.err # NoError
        THEN [err |-> res.err, tags |-> <<>>, names |-> <<>>]
        ELSE [err |-> NoError, tags |-> res.tags, names |-> ImageNames(c, res.tags)]

\* how buildAndPush goes on after validation and tag resolution (lines
\* 227-346): the failure return, the dry-run return, or the first command
Outcome_DryRunIgnored(c, dryRun, prep) ==
    IF prep.err # NoError
    THEN [pc |-> "done", resp |-> FailureResponse(prep.err)]
    ELSE [pc |-> IF HasCredentials(c) THEN "login" ELSE "build", resp |-> NoResponse]

Outcome(c, dryRun, prep) ==
    IF prep.err # NoError
    THEN [pc |-> "done", resp |-> FailureResponse(prep.err)]
    ELSE IF dryRun
    THEN [pc |-> "done", resp |-> DryRunResponse(c, prep.tags)]
    ELSE [pc |-> IF HasCredentials(c) THEN "login" ELSE "build", resp |-> NoResponse]

\* Execute up to its first external command: parseConfig, the hook switch,
\* and buildAndPush's validation, tag resolution and dry-run return
Execute(r) ==
    /\ pc = "idle"
    /\ req' = r
    /\ UNCHANGED <<vconfig, vresp, probe, plugin>>
    /\ LET c == parseConfig(r.Config, r.Env)
       IN  /\ cfg' = c
           /\ UNCHANGED <<calls, results, pushIdx>>
           /\ IF r.Hook # HookPostPublish
              THEN /\ resp' = NotHandledResponse(r.Hook)
                   /\ pc' = "done"
                   /\ UNCHANGED <<resolvedTags, imageNames>>
              ELSE \E argOrder \in Orders(DOMAIN c.BuildArgs),
                      labelOrder \in Orders(DOMAIN c.Labels) :
                     LET prep == Prepared(c, r.Version, argOrder, labelOrder)
                     IN  /\ resolvedTags' = prep.tags
                         /\ imageNames' = prep.names
                         /\ resp' = Outcome(c, r.DryRun, prep).resp
                         /\ pc' = Outcome(c, r.DryRun, prep).pc

\* Execute as a function of the request, of the executor's responses in
\* the order of its calls, and of the orders in which the four range loops
\* over build args and labels (lines 256-274 and 405-417) visit their keys:
\* the calls issued and the response returned
ExecuteRun(r, responses, checkArgs, checkLabels, buildArgs, buildLabels) ==
    LET c == parseConfig(r.Config, r.Env)
        prep == Prepared(c, r.Version, checkArgs, checkLabels)
        out == Outcome(c, r.DryRun, prep)
        Response(k) == IF k <= Len(responses) THEN responses[k] ELSE ""
        login == IF out.pc = "login" THEN <<dockerLoginCall(c)>> ELSE <<>>
        build == dockerBuildCall(c, prep.names, r.Version, buildArgs, buildLabels)
        pushes == IF c.Push THEN prep.names ELSE <<>>
        failing == {i \in 1..Len(pushes) : Response(Len(login) + 1 + i) # ""}
        last == IF failing = {} THEN Len(pushes)
                ELSE CHOOSE i \in failing : \A j \in failing : i <= j
    IN  IF r.Hook # HookPostPublish
        THEN [calls |-> <<>>, resp |-> NotHandledResponse(r.Hook)]
        ELSE IF out.pc = "done"
        THEN [calls |-> <<>>, resp |-> out.resp]
        ELSE IF Len(login) = 1 /\ Response(1) # ""
        THEN [calls |-> login,
              resp |-> FailureResponse(
                          MkError("failed to login to registry", EmptyStr, Response(1)))]
        ELSE IF Response(Len(login) + 1) # ""
        THEN [calls |-> login \o <<build>>,
              resp |-> FailureResponse(
                          MkError("failed to build image", EmptyStr, Response(Len(login) + 1)))]
        ELSE [calls |-> login \o <<build>> \o [i \in 1..last |-> dockerPushCall(pushes[i])],
              resp |-> IF failing = {}
                       THEN SuccessResponse(c, prep.tags)
                       ELSE FailureResponse(
                               MkError("failed to push image", pushes[last],
                                       Response(Len(login) + 1 + last)))]

ExecuteAny ==
    /\ pc = "idle"
    /\ \E changed \in ChangedSets : \E r \in RequestsChanging(changed) : Execute(r)

\* a login whose error is dropped
DockerLogin_ErrorIgnored ==
    /\ pc = "login"
    /\ \E result \in ExecResults :
          /\ calls' = Append(calls, dockerLoginCall(cfg))
          /\ results' = Append(results, result)
          /\ pc' = "build"
          /\ UNCHANGED resp
    /\ UNCHANGED <<req, cfg, resolvedTags, imageNames, pushIdx>>
    /\ plugin' = getExecutor(plugin).plugin
    /\ UNCHANGED <<vconfig, vresp, probe>>

\* lines 339-346
DockerLogin ==
    /\ pc = "login"
    /\ \E result \in ExecResults :
          /\ calls' = Append(calls, dockerLoginCall(cfg))
          /\ results' = Append(results, result)
          /\ IF result # ""
             THEN /\ resp' = FailureResponse(
                                MkError("failed to login to registry", EmptyStr, result))
                  /\ pc' = "done"
             ELSE /\ pc' = "build"
                  /\ UNCHANGED resp
    /\ UNCHANGED <<req, cfg, resolvedTags, imageNames, pushIdx>>
    /\ plugin' = getExecutor(plugin).plugin
    /\ UNCHANGED <<vconfig, vresp, probe>>

\* a build refused when there is no image name to give it
DockerBuild_RefusedWithoutNames ==
    /\ pc = "build"
    /\ \E result \in ExecResults,
          argOrder \in Orders(DOMAIN cfg.BuildArgs),
          labelOrder \in Orders(DOMAIN cfg.Labels) :
          IF Len(imageNames) = 0
          THEN /\ resp' = FailureResponse(MkError("failed to build image", EmptyStr, "exit 1"))
               /\ pc' = "done"
               /\ UNCHANGED <<calls, results, pushIdx>>
          ELSE /\ calls' = Append(calls,
                              dockerBuildCall(cfg, imageNames, req.Version, argOrder, labelOrder))
               /\ results' = Append(results, result)
               /\ IF result # ""
                  THEN /\ resp' = FailureResponse(
                                     MkError("failed to build image", EmptyStr, result))
                       /\ pc' = "done"
                       /\ UNCHANGED pushIdx
                  ELSE IF cfg.Push
                  THEN /\ pc' = "push"
                       /\ pushIdx' = 1
                       /\ UNCHANGED resp
                  ELSE /\ resp' = SuccessResponse(cfg, resolvedTags)
                       /\ pc' = "done"
                       /\ UNCHANGED pushIdx
    /\ UNCHANGED <<req, cfg, resolvedTags, imageNames>>
    /\ plugin' = getExecutor(plugin).plugin
    /\ UNCHANGED <<vconfig, vresp, probe>>

\* lines 348-353, and the return of lines 366-374 when nothing is pushed
DockerBuild ==
    /\ pc = "build"
    /\ \E result \in ExecResults,
          argOrder \in Orders(DOMAIN cfg.BuildArgs),
          labelOrder \in Orders(DOMAIN cfg.Labels) :
          /\ calls' = Append(calls,
                         dockerBuildCall(cfg, imageNames, req.Version, argOrder, labelOrder))
          /\ results' = Append(results, result)
          /\ IF result # ""
             THEN /\ resp' = FailureResponse(MkError("failed to build image", EmptyStr, result))
                  /\ pc' = "done"
                  /\ UNCHANGED pushIdx
             ELSE IF cfg.Push /\ Len(imageNames) > 0
             THEN /\ pc' = "push"
                  /\ pushIdx' = 1
                  /\ UNCHANGED resp
             ELSE /\ resp' = SuccessResponse(cfg, resolvedTags)
                  /\ pc' = "done"
                  /\ UNCHANGED pushIdx
    /\ UNCHANGED <<req, cfg, resolvedTags, imageNames>>
    /\ plugin' = getExecutor(plugin).plugin
    /\ UNCHANGED <<vconfig, vresp, probe>>

\* a push loop that goes on to the next reference after a failed push
DockerPush_FailureSkipped ==
    /\ pc = "push"
    /\ \E result \in ExecResults :
          /\ calls' = Append(calls, dockerPushCall(imageNames[pushIdx]))
          /\ results' = Append(results, result)
          /\ IF pushIdx < Len(imageNames)
             THEN /\ pushIdx' = pushIdx + 1
                  /\ UNCHANGED <<pc, resp>>
             ELSE IF result # ""
             THEN /\ resp' = FailureResponse(
                                MkError("failed to push image", imageNames[pushIdx], result))
                  /\ pc' = "done"
                  /\ UNCHANGED pushIdx
             ELSE /\ resp' = SuccessResponse(cfg, resolvedTags)
                  /\ pc' = "done"
                  /\ UNCHANGED pushIdx
    /\ UNCHANGED <<req, cfg, resolvedTags, imageNames>>
    /\ plugin' = getExecutor(plugin).plugin
    /\ UNCHANGED <<vconfig, vresp, probe>>

\* a push loop that leaves after its first successful push
DockerPush_StopsAfterFirst ==
    /\ pc = "push"
    /\ \E result \in ExecResults :
          /\ calls' = Append(calls, dockerPushCall(imageNames[pushIdx]))
          /\ results' = Append(results, result)
          /\ IF result # ""
             THEN /\ resp' = FailureResponse(
                                MkError("failed to push image", imageNames[pushIdx], result))
                  /\ pc' = "done"
                  /\ UNCHANGED pushIdx
             ELSE /\ resp' = SuccessResponse(cfg, resolvedTags)
                  /\ pc' = "done"
                  /\ UNCHANGED pushIdx
    /\ UNCHANGED <<req, cfg, resolvedTags, imageNames>>
    /\ plugin' = getExecutor(plugin).plugin
    /\ UNCHANGED <<vconfig, vresp, probe>>

\* one iteration of the loop of lines 355-364, and the return of lines
\* 366-374 after the last one
DockerPush ==
    /\ pc = "push"
    /\ \E result \in ExecResults :
          /\ calls' = Append(calls, dockerPushCall(imageNames[pushIdx]))
          /\ results' = Append(results, result)
          /\ IF result # ""
             THEN /\ resp' = FailureResponse(
                                MkError("failed to push image", imageNames[pushIdx], result))
                  /\ pc' = "done"
                  /\ UNCHANGED pushIdx
             ELSE IF pushIdx < Len(imageNames)
             THEN /\ pushIdx' = pushIdx + 1
                  /\ UNCHANGED <<pc, resp>>
             ELSE /\ resp' = SuccessResponse(cfg, resolvedTags)
                  /\ pc' = "done"
                  /\ UNCHANGED pushIdx
    /\ UNCHANGED <<req, cfg, resolvedTags, imageNames>>
    /\ plugin' = getExecutor(plugin).plugin
    /\ UNCHANGED <<vconfig, vresp, probe>>

\* Validate, whole: it runs no command and returns a nil error
Validate(raw) ==
    /\ pc = "idle"
    /\ \E argOrder \in Orders(RawKeys(raw.build_args)),
          labelOrder \in Orders(RawKeys(raw.labels)) :
          vresp' = MkValidateResponse(ValidateErrors(raw, argOrder, labelOrder))
    /\ vconfig' = raw
    /\ pc' = "validated"
    /\ UNCHANGED <<req, cfg, resolvedTags, imageNames, pushIdx, calls, results, resp, probe, plugin>>

ValidateAny ==
    /\ pc = "idle"
    /\ \E changed \in ConfigChangedSets : \E raw \in ConfigsChanging(changed) : Validate(raw)

\* the response has been handed to the host; nothing of the invocation is
\* kept (the plugin has no state of its own besides its executor)
Return ==
    /\ pc \in {"done", "validated"}
    /\ pc' = "idle"
    /\ req' = NoRequest
    /\ cfg' = parseConfig(NoConfig, NoEnv)
    /\ resolvedTags' = <<>>
    /\ imageNames' = <<>>
    /\ pushIdx' = 0
    /\ calls' = <<>>
    /\ results' = <<>>
    /\ resp' = NoResponse
    /\ vconfig' = NoConfig
    /\ vresp' = NoValidateResponse
    /\ UNCHANGED <<probe, plugin>>

Next == ExecuteAny \/ ValidateAny \/ DockerLogin \/ DockerBuild \/ DockerPush \/ Return

Spec == Init /\ [][Next]_vars

(***************************************************************************)
(* The pure functions on their own: tag resolution and the validators,     *)
(* each applied once to an input drawn from a bounded set.                 *)
(***************************************************************************)
\* all strings over the alphabet of length at most n
RECURSIVE StringsUpTo(_, _)
StringsUpTo(alphabet, n) ==
    IF n = 0 THEN {<<>>}
    ELSE LET shorter == StringsUpTo(alphabet, n - 1)
         IN  shorter \cup {Append(q, x) : q \in {r \in shorter : Len(r) = n - 1},
                                          x \in alphabet}

\* the string of n copies of the character c
Repeat(c, n) == [i \in 1..n |-> c]

ProbeTemplates ==
    {PhVersion, PhMajor, PhMinor, PhPatch, Latest,
     PhMajor \o Dot \o PhMinor \o Dot \o PhPatch,
     PhMajor \o Dot \o PhMinor,
     PhVersion \o <<"-">> \o PhVersion,
     <<"s","t","a","b","l","e">>,
     \* braces that form no placeholder
     <<"{","{","n","a","m","e","}","}">>,
     <<"{","{","m","a","j","o","r","}">>,
     \* a placeholder inside the text of another
     <<"{","{","m","a">> \o PhMinor \o <<"j","o","r","}","}">>,
     <<"{","{","m","i">> \o PhMajor \o <<"}","}">>}

ProbeVersions ==
    {V123, V12, VOnly, EmptyStr, V100NoPrefix, VPlus,
     <<"v","3",".","2",".","1">>,
     <<"v","1">>,
     <<"v","1",".","2",".","3",".","4">>,
     <<"v","v","1",".","2",".","3">>,
     <<"1",".","v","2",".","3">>,
     <<"v",".","2">>,
     <<"1",".","2",".","3","-","r","c",".","1">>,
     <<"v","n","o","r",".","5">>,
     \* versions that hold placeholder text
     PhPatch \o <<".","1",".","2">>,
     <<"v">> \o PhVersion \o <<"x">>}

ResolveProbes ==
    {[fn |-> "resolve", args |-> <<t, v>>, done |-> FALSE, out |-> <<>>, err |-> ""] :
        t \in ProbeTemplates, v \in ProbeVersions}

\* Config structs handed to dockerLogin and dockerBuild directly, empty
\* fields included
ZeroCfg == [ Registry |-> EmptyStr, Image |-> EmptyStr, Tags |-> <<>>,
             Dockerfile |-> EmptyStr, Context |-> EmptyStr, BuildArgs |-> << >>,
             Platforms |-> <<>>, Username |-> EmptyStr, Password |-> EmptyStr,
             Push |-> FALSE, Labels |-> << >>, CacheFrom |-> <<>>, NoCache |-> FALSE,
             Target |-> EmptyStr ]

LoginProbes ==
    {[fn |-> "login",
      args |-> <<[ZeroCfg EXCEPT !.Registry = r, !.Username = u, !.Password = pw]>>,
      done |-> FALSE, out |-> <<>>, err |-> ""] :
        r \in {EmptyStr, DockerIO, RegGhcr}, u \in {EmptyStr, <<"u">>},
        pw \in {EmptyStr, <<"p">>}}

BuildConfigs ==
    {[ZeroCfg EXCEPT !.Dockerfile = x[1], !.Context = x[2], !.BuildArgs = x[3],
                     !.Platforms = x[4], !.Labels = y[1], !.CacheFrom = y[2],
                     !.NoCache = y[3], !.Target = y[4]] :
        x \in {EmptyStr, PathProd} \X {EmptyStr, PathApp}
                \X {<< >>, KeyA :> <<"1">> @@ KeyB :> <<"2">>}
                \X {<<>>, <<<<"l","/","a">>>>, <<<<"l","/","a">>, <<"l","/","b">>>>},
        y \in {<< >>, LabelOk :> <<"x">> @@ LabelOk2 :> <<"y">>}
                \X {<<>>, <<<<"c","1">>, <<"c","2">>>>}
                \X BOOLEAN
                \X {EmptyStr, <<"t">>}}

ProbeImageNames ==
    {<<>>, <<ImgOA \o Colon \o Latest>>,
     <<RegGhcr \o Slash \o ImgOA \o Colon \o <<"1">>, RegGhcr \o Slash \o ImgOA \o Colon \o Latest>>}

BuildProbes ==
    {[fn |-> "build", args |-> <<c, names, v>>, done |-> FALSE, out |-> <<>>, err |-> ""] :
        c \in BuildConfigs, names \in ProbeImageNames, v \in {V123, V100NoPrefix}}

PathProbes ==
    {[fn |-> "path", args |-> <<field, path>>, done |-> FALSE, out |-> <<>>, err |-> ""] :
        field \in {"dockerfile", "context"},
        path \in StringsUpTo({"a", ".", "/"}, MaxPathLen)}

LongNames ==
    {Repeat("a", MaxImageNameLen), Repeat("a", MaxImageNameLen + 1),
     Repeat("a", MaxImageNameLen - 1) \o <<".">>,
     <<"a", ".", ".">> \o Repeat("a", MaxImageNameLen - 3),
     <<"a", "/">> \o Repeat("0", MaxImageNameLen - 2)}
NameProbes ==
    {[fn |-> "image", args |-> <<name>>, done |-> FALSE, out |-> <<>>, err |-> ""] :
        name \in StringsUpTo({"a", "Z", "0", ".", "_", "/", "-", ":"}, MaxNameLen)
                    \cup LongNames}

RegistryProbes ==
    {[fn |-> "registry", args |-> <<r>>, done |-> FALSE, out |-> <<>>, err |-> ""] :
        r \in StringsUpTo({"a", "0", ".", "-", ":", "_"}, MaxNameLen)
                 \cup {DockerIO,
                       Repeat("a", MaxRegistryLen), Repeat("a", MaxRegistryLen + 1),
                       Repeat("a", MaxRegistryLen - 3) \o <<":", "8", "0">>,
                       Repeat("a", MaxRegistryLen - 2) \o <<":", "8", "0">>}}

KeyProbes ==
    {[fn |-> kind, args |-> <<key>>, done |-> FALSE, out |-> <<>>, err |-> ""] :
        kind \in {"buildarg", "label"},
        key \in StringsUpTo({"a", "Z", "0", "_", "-", ".", "="}, MaxNameLen)
                   \cup {Repeat("a", MaxLabelKeyLen), Repeat("a", MaxLabelKeyLen + 1)}}

ProbeInputs ==
    ResolveProbes \cup LoginProbes \cup BuildProbes \cup PathProbes \cup NameProbes
        \cup RegistryProbes \cup KeyProbes

InitFn ==
    /\ pc = "idle"
    /\ req = NoRequest
    /\ cfg = parseConfig(NoConfig, NoEnv)
    /\ resolvedTags = <<>>
    /\ imageNames = <<>>
    /\ pushIdx = 0
    /\ calls = <<>>
    /\ results = <<>>
    /\ resp = NoResponse
    /\ vconfig = NoConfig
    /\ vresp = NoValidateResponse
    /\ probe \in ProbeInputs
    /\ plugin = NewDockerPlugin

\* buildAndPush lines 276-301 for one template: the stripped version, its
\* major, minor and patch components and the resolved tag
ApplyResolve ==
    /\ probe.fn = "resolve" /\ ~probe.done
    /\ LET version == TrimmedVersion(probe.args[2])
       IN  probe' = [probe EXCEPT
                        !.done = TRUE,
                        !.out = <<version, VersionPart(version, 1), VersionPart(version, 2),
                                  VersionPart(version, 3),
                                  ResolveTemplate(probe.args[1], version)>>]
    /\ UNCHANGED <<pc, req, cfg, resolvedTags, imageNames, pushIdx, calls, results, resp,
                   vconfig, vresp, plugin>>

\* dockerLogin called on a Config: the command it runs and the error the
\* executor returns, which it hands back
ApplyDockerLogin ==
    /\ probe.fn = "login" /\ ~probe.done
    /\ \E result \in ExecResults :
          probe' = [probe EXCEPT !.done = TRUE,
                                 !.out = <<dockerLoginCall(probe.args[1])>>,
                                 !.err = result]
    /\ UNCHANGED <<pc, req, cfg, resolvedTags, imageNames, pushIdx, calls, results, resp,
                   vconfig, vresp>>
    /\ plugin' = getExecutor(plugin).plugin

\* dockerBuild called on a Config, the image names and the release version
ApplyDockerBuild ==
    /\ probe.fn = "build" /\ ~probe.done
    /\ \E result \in ExecResults,
          argOrder \in Orders(DOMAIN probe.args[1].BuildArgs),
          labelOrder \in Orders(DOMAIN probe.args[1].Labels) :
          probe' = [probe EXCEPT !.done = TRUE,
                                 !.out = <<dockerBuildCall(probe.args[1], probe.args[2],
                                                           probe.args[3], argOrder, labelOrder)>>,
                                 !.err = result]
    /\ UNCHANGED <<pc, req, cfg, resolvedTags, imageNames, pushIdx, calls, results, resp,
                   vconfig, vresp>>
    /\ plugin' = getExecutor(plugin).plugin

\* buildAndPush lines 248-256: validatePath on the dockerfile or on the
\* build context, and the error buildAndPush makes of a failure
ApplyValidatePath ==
    /\ probe.fn = "path" /\ ~probe.done
    /\ LET err == validatePath(probe.args[2])
           kind == IF probe.args[1] = "dockerfile" THEN "invalid dockerfile path"
                   ELSE "invalid build context path"
       IN  probe' = [probe EXCEPT
                        !.done = TRUE,
                        !.err = err,
                        !.out = IF err # "" THEN <<MkError(kind, EmptyStr, err)>> ELSE <<>>]
    /\ UNCHANGED <<pc, req, cfg, resolvedTags, imageNames, pushIdx, calls, results, resp,
                   vconfig, vresp, plugin>>

ApplyValidateImageName ==
    /\ probe.fn = "image" /\ ~probe.done
    /\ probe' = [probe EXCEPT !.done = TRUE, !.err = validateImageName(probe.args[1])]
    /\ UNCHANGED <<pc, req, cfg, resolvedTags, imageNames, pushIdx, calls, results, resp,
                   vconfig, vresp, plugin>>

ApplyValidateRegistry ==
    /\ probe.fn = "registry" /\ ~probe.done
    /\ probe' = [probe EXCEPT !.done = TRUE, !.err = validateRegistry(probe.args[1])]
    /\ UNCHANGED <<pc, req, cfg, resolvedTags, imageNames, pushIdx, calls, results, resp,
                   vconfig, vresp, plugin>>

ApplyValidateBuildArgKey ==
    /\ probe.fn = "buildarg" /\ ~probe.done
    /\ probe' = [probe EXCEPT !.done = TRUE, !.err = validateBuildArgKey(probe.args[1])]
    /\ UNCHANGED <<pc, req, cfg, resolvedTags, imageNames, pushIdx, calls, results, resp,
                   vconfig, vresp, plugin>>

ApplyValidateLabelKey ==
    /\ probe.fn = "label" /\ ~probe.done
    /\ probe' = [probe EXCEPT !.done = TRUE, !.err = validateLabelKey(probe.args[1])]
    /\ UNCHANGED <<pc, req, cfg, resolvedTags, imageNames, pushIdx, calls, results, resp,
                   vconfig, vresp, plugin>>

NextFn ==
    \/ ApplyResolve \/ ApplyDockerLogin \/ ApplyDockerBuild
    \/ ApplyValidatePath \/ ApplyValidateImageName
    \/ ApplyValidateRegistry \/ ApplyValidateBuildArgKey \/ ApplyValidateLabelKey

SpecFn == InitFn /\ [][NextFn]_vars

(***************************************************************************)
(* Vocabulary of the properties.                                           *)
(***************************************************************************)
IsLogin(call) == call.args[1] = ArgLogin
IsBuild(call) == call.args[1] = ArgBuild
IsPush(call) == call.args[1] = ArgPush

LoginIndices == {i \in 1..Len(calls) : IsLogin(calls[i])}
BuildIndices == {i \in 1..Len(calls) : IsBuild(calls[i])}
PushIndices == {i \in 1..Len(calls) : IsPush(calls[i])}

\* the values of the leading run of -t flags of a build command line
RECURSIVE TFlagsFrom(_, _)
TFlagsFrom(args, j) ==
    IF j + 1 <= Len(args) /\ args[j] = ArgT
    THEN <<args[j + 1]>> \o TFlagsFrom(args, j + 2)
    ELSE <<>>
TFlagValues(call) == TFlagsFrom(call.args, 2)

\* the part of an image reference after its last colon
TagOf(ref) ==
    LET colons == {i \in 1..Len(ref) : ref[i] = ":"}
        last == CHOOSE i \in colons : \A j \in colons : j <= i
    IN  IF colons = {} THEN ref ELSE SubSeq(ref, last + 1, Len(ref))

PostPublish == req.Hook = HookPostPublish
\* an Execute has been called and has not yet been answered for
InExecute == pc \in {"login", "build", "push", "done"}
Done == pc = "done"

\* the tag templates of the request in force and what each resolves to
TemplatesInForce == IF Len(cfg.Tags) = 0 THEN <<PhVersion, Latest>> ELSE cfg.Tags
ResolvedAll ==
    [i \in 1..Len(TemplatesInForce) |->
        ResolveTemplate(TemplatesInForce[i], TrimPrefix(req.Version, <<"v">>))]
NonEmpty(t) == t # EmptyStr
ResolvedNonEmpty == SelectSeq(ResolvedAll, NonEmpty)

\* the checks of the configuration, one by one
BadImage == validateImageName(cfg.Image) # ""
BadRegistry == validateRegistry(cfg.Registry) # ""
BadDockerfile == validatePath(cfg.Dockerfile) # ""
BadContext == validatePath(cfg.Context) # ""
BadArgKeys == {k \in DOMAIN cfg.BuildArgs : validateBuildArgKey(k) # ""}
BadLabelKeys == {k \in DOMAIN cfg.Labels : validateLabelKey(k) # ""}
BadTagIndices == {i \in 1..Len(ResolvedNonEmpty) : validateTag(ResolvedNonEmpty[i]) # ""}
SomeValidatorFails ==
    \/ BadImage \/ BadRegistry \/ BadDockerfile \/ BadContext
    \/ BadArgKeys # {} \/ BadLabelKeys # {} \/ BadTagIndices # {}

BothCredentials == cfg.Username # EmptyStr /\ cfg.Password # EmptyStr

(***************************************************************************)
(* C1.  In a non-dry-run post-publish Execute whose configuration passes   *)
(* validation the commands come in the order login, build, push: a login   *)
(* is issued iff username and password are both non-empty and is then the  *)
(* first command; unless the login failed exactly one build follows; every *)
(* push comes after the build.                                             *)
(***************************************************************************)
C1_LoginBuildPushOrder ==
    /\ \A i \in LoginIndices : i = 1 /\ BothCredentials
    /\ \A i \in BuildIndices : i = (IF BothCredentials THEN 2 ELSE 1)
    /\ \A i \in PushIndices : \E j \in BuildIndices : j < i
    /\ (pc \in {"build", "push"} /\ BothCredentials) => LoginIndices = {1}
    /\ pc = "push" => Cardinality(BuildIndices) = 1
    /\ (Done /\ PostPublish /\ ~req.DryRun /\ ~SomeValidatorFails) =>
          /\ BothCredentials <=> LoginIndices = {1}
          /\ (LoginIndices = {} \/ results[1] = "") => Cardinality(BuildIndices) = 1

C1_Witness ==
    /\ Done /\ resp.Success
    /\ Len(calls) >= 4
    /\ IsLogin(calls[1]) /\ IsBuild(calls[2]) /\ IsPush(calls[3]) /\ IsPush(calls[4])

(***************************************************************************)
(* C2.  When any validator fails (image, registry, dockerfile, context, a  *)
(* build-arg key, a label key or a non-empty resolved tag) Execute returns *)
(* Success=false and no external command is ever issued, dry-run or not;   *)
(* one invalid resolved tag is enough even if the other tags are valid.    *)
(***************************************************************************)
C2_ValidationFailureRunsNothing ==
    (PostPublish /\ SomeValidatorFails) =>
        /\ calls = <<>>
        /\ Done
        /\ ~resp.Success
        /\ resp.Error # NoError

C2_Witness ==
    /\ Done /\ PostPublish /\ ~req.DryRun
    /\ ~BadImage /\ ~BadRegistry /\ ~BadDockerfile /\ ~BadContext
    /\ BadArgKeys = {} /\ BadLabelKeys = {}
    /\ Cardinality(BadTagIndices) = 1 /\ Len(ResolvedNonEmpty) = 2
    /\ ~resp.Success /\ calls = <<>>

(***************************************************************************)
(* C3.  When an external command fails, it is the last command issued and  *)
(* Execute returns Success=false with an error that names the failed step  *)
(* and carries the executor's error text; in particular a failed login is  *)
(* followed by neither build nor push.                                     *)
(***************************************************************************)
StepError(call, cause) ==
    IF IsLogin(call) THEN [kind |-> "failed to login to registry", subject |-> EmptyStr,
                           cause |-> cause]
    ELSE IF IsBuild(call) THEN [kind |-> "failed to build image", subject |-> EmptyStr,
                                cause |-> cause]
    ELSE [kind |-> "failed to push image", subject |-> call.args[2], cause |-> cause]

C3_FailureStopsExecution ==
    /\ Len(results) = Len(calls)
    /\ \A i \in 1..Len(calls) :
          results[i] # "" =>
              /\ i = Len(calls)
              /\ Done
              /\ ~resp.Success
              /\ resp.Error = StepError(calls[i], results[i])
    /\ (Done /\ calls # <<>> /\ results[Len(calls)] = "") => resp.Success

C3_Witness ==
    /\ Done /\ ~resp.Success
    /\ Len(calls) = 1 /\ IsLogin(calls[1]) /\ results[1] = "exit status 1"
    /\ cfg.Push /\ Len(imageNames) = 2

(***************************************************************************)
(* C4.  With the dry-run flag set Execute issues no external command,      *)
(* whatever the credentials and the push flag, and when the configuration  *)
(* passes validation it returns Success=true with outputs holding the      *)
(* image name, the resolved tag list and the registry.                     *)
(***************************************************************************)
C4_DryRunRunsNothing ==
    (PostPublish /\ req.DryRun) =>
        /\ calls = <<>>
        /\ pc \notin {"login", "build", "push"}
        /\ (Done /\ ~SomeValidatorFails) =>
              /\ resp.Success
              /\ resp.Error = NoError
              /\ resp.Outputs.keys = {"image", "tags", "registry"}
              /\ resp.Outputs.image = cfg.Image
              /\ resp.Outputs.tags = resolvedTags
              /\ resp.Outputs.registry = cfg.Registry

C4_Witness ==
    /\ Done /\ PostPublish /\ req.DryRun
    /\ BothCredentials /\ cfg.Push
    /\ resp.Success /\ Len(resp.Outputs.tags) = 2
    /\ calls = <<>>

(***************************************************************************)
(* C5.  With the push flag set, after a successful build the pushes are    *)
(* one per resolved tag, in resolved-tag order, and the i-th push targets  *)
(* the reference of the i-th -t flag of the build; with the push flag      *)
(* false there is no push.                                                 *)
(***************************************************************************)
C5_OnePushPerTagInOrder ==
    /\ ~cfg.Push => PushIndices = {}
    /\ \A b \in BuildIndices :
          LET tflags == TFlagValues(calls[b])
          IN  /\ \A i \in PushIndices :
                    /\ i - b \in 1..Len(tflags)
                    /\ calls[i].args = <<ArgPush, tflags[i - b]>>
              /\ (Done /\ resp.Success /\ cfg.Push) =>
                    /\ Len(calls) - b = Len(tflags)
                    /\ Len(tflags) = Len(resolvedTags)
                    /\ \A i \in 1..Len(tflags) : IsPush(calls[b + i])

C5_Witness ==
    /\ Done /\ resp.Success /\ cfg.Push
    /\ BothCredentials
    /\ Cardinality(PushIndices) = 3
    /\ calls[3].args[2] # calls[4].args[2]

(***************************************************************************)
(* C6.  A successful non-dry-run Execute issues exactly L + 1 + P          *)
(* commands, L = 1 with both credentials and 0 without, P = the number of  *)
(* resolved tags when the push flag is set and 0 when not.  For the        *)
(* configuration {image, push: true} and version v1.2.3 these are one      *)
(* build tagging image:1.2.3 and image:latest and then the two pushes,     *)
(* without a login.                                                        *)
(***************************************************************************)
ExampleConfig == [NoConfig EXCEPT !.image = Some(ImgOA), !.push = Some(TRUE)]
ExampleRef123 == ImgOA \o <<":", "1", ".", "2", ".", "3">>
ExampleRefLatest == ImgOA \o <<":", "l", "a", "t", "e", "s", "t">>

C6_CommandCount ==
    (Done /\ PostPublish /\ ~req.DryRun /\ resp.Success) =>
        /\ Len(calls) = (IF BothCredentials THEN 1 ELSE 0) + 1
                            + (IF cfg.Push THEN Len(ResolvedNonEmpty) ELSE 0)
        /\ (req.Config = ExampleConfig /\ req.Version = V123 /\ req.Env = NoEnv) =>
              /\ Len(calls) = 3
              /\ IsBuild(calls[1])
              /\ TFlagValues(calls[1]) = <<ExampleRef123, ExampleRefLatest>>
              /\ calls[2].args = <<ArgPush, ExampleRef123>>
              /\ calls[3].args = <<ArgPush, ExampleRefLatest>>

C6_Witness ==
    /\ Done /\ PostPublish /\ ~req.DryRun /\ resp.Success
    /\ req.Config = ExampleConfig /\ req.Version = V123 /\ req.Env = NoEnv
    /\ Len(calls) = 3

(***************************************************************************)
(* C7.  With several invalid fields Execute reports the failure of the     *)
(* earliest check only, in the order image name, registry, dockerfile      *)
(* path, context path, build-arg keys, label keys, resolved tags in tag    *)
(* order, and the error identifies that field.                             *)
(***************************************************************************)
FirstBadTag ==
    ResolvedNonEmpty[CHOOSE i \in BadTagIndices : \A j \in BadTagIndices : i <= j]

C7_EarliestFailureReported ==
    (Done /\ PostPublish) =>
        IF BadImage THEN resp.Error.kind = "invalid image configuration"
        ELSE IF BadRegistry THEN resp.Error.kind = "invalid registry configuration"
        ELSE IF BadDockerfile THEN resp.Error.kind = "invalid dockerfile path"
        ELSE IF BadContext THEN resp.Error.kind = "invalid build context path"
        ELSE IF BadArgKeys # {}
        THEN resp.Error.kind = "invalid build arg key" /\ resp.Error.subject \in BadArgKeys
        ELSE IF BadLabelKeys # {}
        THEN resp.Error.kind = "invalid label key" /\ resp.Error.subject \in BadLabelKeys
        ELSE IF BadTagIndices # {}
        THEN resp.Error.kind = "invalid tag" /\ resp.Error.subject = FirstBadTag
        ELSE resp.Error.kind \notin
                {"invalid image configuration", "invalid registry configuration",
                 "invalid dockerfile path", "invalid build context path",
                 "invalid build arg key", "invalid label key", "invalid tag"}

C7_Witness ==
    /\ Done /\ PostPublish
    /\ ~BadImage /\ ~BadRegistry /\ BadDockerfile /\ BadContext /\ BadTagIndices # {}
    /\ resp.Error.kind = "invalid dockerfile path"

C9_DryRunKeepsEmptyTags ==
    (Done /\ PostPublish /\ req.DryRun /\ resp.Success) =>
        resp.Outputs.tags = ResolvedAll

(***************************************************************************)
(* C10.  There is one image reference per resolved tag, in resolved-tag    *)
(* order, each being <name>:<tag> where <name> is the bare image name      *)
(* when the registry is empty or docker.io and <registry>/<image> for any  *)
(* other registry; the build and the pushes use these references.          *)
(***************************************************************************)
ExpectedName ==
    IF cfg.Registry = EmptyStr \/ cfg.Registry = DockerIO
    THEN cfg.Image
    ELSE cfg.Registry \o <<"/">> \o cfg.Image

C10_ImageReferences ==
    /\ Len(imageNames) = Len(resolvedTags)
    /\ \A i \in 1..Len(imageNames) :
          imageNames[i] = ExpectedName \o <<":">> \o resolvedTags[i]
    /\ \A b \in BuildIndices : TFlagValues(calls[b]) = imageNames
    /\ \A i \in PushIndices : \E k \in 1..Len(imageNames) : calls[i].args[2] = imageNames[k]

C10_Witness ==
    /\ Done /\ resp.Success
    /\ cfg.Registry = RegGhcr
    /\ Len(imageNames) = 2
    /\ Cardinality(PushIndices) = 2
    /\ HasPrefix(calls[Len(calls)].args[2], RegGhcr \o <<"/">>)

C10_WitnessDefaultRegistry ==
    /\ Done /\ resp.Success
    /\ cfg.Registry = DockerIO
    /\ Cardinality(PushIndices) = 2
    /\ calls[Len(calls)].args[2] = ExampleRefLatest

(***************************************************************************)
(* Vocabulary of the properties of tag resolution.                         *)
(***************************************************************************)
Resolved == probe.fn = "resolve" /\ probe.done
ProbeTemplate == probe.args[1]
ProbeRawVersion == probe.args[2]

\* the raw version without one leading 'v'
Stripped(raw) ==
    IF Len(raw) >= 1 /\ raw[1] = "v" THEN [i \in 1..(Len(raw) - 1) |-> raw[i + 1]] ELSE raw

\* the k-th dot-separated component of s, empty when there is none
DotPositions(s) == {i \in 1..Len(s) : s[i] = "."}
NthDot(s, k) == CHOOSE i \in DotPositions(s) : Cardinality({j \in DotPositions(s) : j <= i}) = k
Component(s, k) ==
    LET dots == Cardinality(DotPositions(s))
        first == IF k = 1 THEN 1 ELSE NthDot(s, k - 1) + 1
        last == IF k <= dots THEN NthDot(s, k) - 1 ELSE Len(s)
    IN  IF k - 1 > dots THEN <<>> ELSE [i \in 1..(last - first + 1) |-> s[first + i - 1]]

\* every occurrence of old in s, found from left to right, replaced by new
RECURSIVE SubstFrom(_, _, _, _)
SubstFrom(s, i, old, new) ==
    IF i > Len(s) THEN <<>>
    ELSE IF i + Len(old) - 1 <= Len(s) /\ \A j \in 1..Len(old) : s[i + j - 1] = old[j]
    THEN new \o SubstFrom(s, i + Len(old), old, new)
    ELSE <<s[i]>> \o SubstFrom(s, i + 1, old, new)

Placeholders == <<<<"{","{","v","e","r","s","i","o","n","}","}">>,
                  <<"{","{","m","a","j","o","r","}","}">>,
                  <<"{","{","m","i","n","o","r","}","}">>,
                  <<"{","{","p","a","t","c","h","}","}">>>>

\* the values of the four placeholders for a raw version
ValuesOf(raw) ==
    <<Stripped(raw), Component(Stripped(raw), 1), Component(Stripped(raw), 2),
      Component(Stripped(raw), 3)>>

\* the placeholders substituted one after the other in the given order
RECURSIVE SubstInOrder(_, _, _, _)
SubstInOrder(s, order, k, values) ==
    IF k > Len(order) THEN s
    ELSE SubstInOrder(SubstFrom(s, 1, Placeholders[order[k]], values[order[k]]),
                      order, k + 1, values)

PlaceholderOrders == {o \in [1..4 -> 1..4] : \A i, j \in 1..4 : i # j => o[i] # o[j]}

\* the placeholder that starts at position i of s, 0 when none does
PlaceholderAt(s, i) ==
    LET starting == {p \in 1..4 :
                        /\ i + Len(Placeholders[p]) - 1 <= Len(s)
                        /\ \A j \in 1..Len(Placeholders[p]) : s[i + j - 1] = Placeholders[p][j]}
    IN  IF starting = {} THEN 0 ELSE CHOOSE p \in starting : TRUE

\* one pass over the template: each placeholder occurrence replaced by its
\* value, the inserted text never looked at
RECURSIVE SinglePass(_, _, _)
SinglePass(s, i, values) ==
    IF i > Len(s) THEN <<>>
    ELSE IF PlaceholderAt(s, i) # 0
    THEN values[PlaceholderAt(s, i)]
             \o SinglePass(s, i + Len(Placeholders[PlaceholderAt(s, i)]), values)
    ELSE <<s[i]>> \o SinglePass(s, i + 1, values)

BraceFree(s) == \A i \in 1..Len(s) : s[i] \notin {"{", "}"}

\* the braces of s occur only in complete placeholders
RECURSIVE BracesOnlyInPlaceholders(_, _)
BracesOnlyInPlaceholders(s, i) ==
    IF i > Len(s) THEN TRUE
    ELSE IF PlaceholderAt(s, i) # 0
    THEN BracesOnlyInPlaceholders(s, i + Len(Placeholders[PlaceholderAt(s, i)]))
    ELSE s[i] \notin {"{", "}"} /\ BracesOnlyInPlaceholders(s, i + 1)

(***************************************************************************)
(* C11.  Version parsing removes one optional leading 'v' and takes major, *)
(* minor and patch as the first, second and third dot-separated component  *)
(* of the stripped version; a missing component is the empty string, not   *)
(* an error, and components beyond the third reach only {{version}}.       *)
(***************************************************************************)
C11_VersionParsing ==
    Resolved =>
        /\ probe.err = ""
        /\ probe.out[1] = Stripped(ProbeRawVersion)
        /\ \A k \in 1..3 : probe.out[k + 1] = Component(Stripped(ProbeRawVersion), k)
        /\ \A k \in 1..3 :
              (ProbeTemplate = Placeholders[k + 1] /\ BraceFree(ProbeRawVersion)) =>
                  probe.out[5] = Component(Stripped(ProbeRawVersion), k)

C11_Witness ==
    /\ Resolved
    /\ ProbeRawVersion = <<"v","1",".","2",".","3",".","4">>
    /\ ProbeTemplate = <<"{","{","p","a","t","c","h","}","}">>
    /\ probe.out = <<<<"1",".","2",".","3",".","4">>, <<"1">>, <<"2">>, <<"3">>, <<"3">>>>

C11_WitnessMissing ==
    /\ Resolved
    /\ ProbeRawVersion = <<"v","1",".","2">>
    /\ probe.out[2] = <<"1">> /\ probe.out[3] = <<"2">> /\ probe.out[4] = <<>>

(***************************************************************************)
(* C12 as stated.  For every template and every version string, the four   *)
(* placeholders substituted in any order give the resolved tag, and        *)
(* resolving the resolved tag again leaves it unchanged.                   *)
(***************************************************************************)
C12_AnyOrderAnyInput ==
    Resolved =>
        /\ \A o \in PlaceholderOrders :
              SubstInOrder(ProbeTemplate, o, 1, ValuesOf(ProbeRawVersion)) = probe.out[5]
        /\ SubstInOrder(probe.out[5], <<1, 2, 3, 4>>, 1, ValuesOf(ProbeRawVersion))
              = probe.out[5]

(***************************************************************************)
(* C12.  For every version string without braces and every template whose  *)
(* braces occur only in complete placeholders, the four placeholders       *)
(* substituted in any order give the resolved tag, and resolving the       *)
(* resolved tag again leaves it unchanged ("{{major}}.{{minor}}.{{patch}}" *)
(* against v3.2.1 gives "3.2.1").                                          *)
(***************************************************************************)
C12_OrderIndependentIdempotent ==
    (Resolved /\ BraceFree(ProbeRawVersion) /\ BracesOnlyInPlaceholders(ProbeTemplate, 1)) =>
        /\ \A o \in PlaceholderOrders :
              SubstInOrder(ProbeTemplate, o, 1, ValuesOf(ProbeRawVersion)) = probe.out[5]
        /\ SubstInOrder(probe.out[5], <<4, 3, 2, 1>>, 1, ValuesOf(ProbeRawVersion))
              = probe.out[5]
        /\ BraceFree(probe.out[5])

C12_Witness ==
    /\ Resolved
    /\ ProbeTemplate = <<"{","{","m","a","j","o","r","}","}",".",
                         "{","{","m","i","n","o","r","}","}",".",
                         "{","{","p","a","t","c","h","}","}">>
    /\ ProbeRawVersion = <<"v","3",".","2",".","1">>
    /\ probe.out[5] = <<"3",".","2",".","1">>

(***************************************************************************)
(* C13 as stated.  For every version string, every placeholder occurrence  *)
(* of the original template is replaced by its value and the inserted text *)
(* is never itself scanned and expanded.                                   *)
(***************************************************************************)
C13_InsertedTextNeverScanned ==
    Resolved => probe.out[5] = SinglePass(ProbeTemplate, 1, ValuesOf(ProbeRawVersion))

(***************************************************************************)
(* C13.  Substitution is one pass per placeholder type, in the order       *)
(* {{version}}, {{major}}, {{minor}}, {{patch}}, each pass over the result *)
(* of the pass before it and none repeated: text inserted by a pass is not *)
(* rescanned by that pass, but the later passes do scan it.  For a version *)
(* string without braces and a template whose braces occur only in         *)
(* complete placeholders, every placeholder occurrence of the original     *)
(* template is replaced by its value and inserted text is never expanded.  *)
(***************************************************************************)
C13_OnePassPerPlaceholder ==
    Resolved =>
        /\ probe.out[5] = SubstInOrder(ProbeTemplate, <<1, 2, 3, 4>>, 1,
                                       ValuesOf(ProbeRawVersion))
        /\ (BraceFree(ProbeRawVersion) /\ BracesOnlyInPlaceholders(ProbeTemplate, 1)) =>
              probe.out[5] = SinglePass(ProbeTemplate, 1, ValuesOf(ProbeRawVersion))

\* the version pass inserts {{patch}}, which the patch pass then expands
C13_Witness ==
    /\ Resolved
    /\ ProbeTemplate = <<"{","{","v","e","r","s","i","o","n","}","}">>
    /\ ProbeRawVersion = <<"{","{","p","a","t","c","h","}","}",".","1",".","2">>
    /\ probe.out[5] = <<"2",".","1",".","2">>

\* the version pass does not rescan what it inserted
C13_WitnessSamePass ==
    /\ Resolved
    /\ ProbeTemplate = <<"{","{","v","e","r","s","i","o","n","}","}">>
    /\ ProbeRawVersion = <<"v","{","{","v","e","r","s","i","o","n","}","}","x">>
    /\ probe.out[5] = <<"{","{","v","e","r","s","i","o","n","}","}","x">>

C13_WitnessWellFormed ==
    /\ Resolved
    /\ ProbeTemplate = <<"{","{","v","e","r","s","i","o","n","}","}","-",
                         "{","{","v","e","r","s","i","o","n","}","}">>
    /\ ProbeRawVersion = <<"v","1",".","2">>
    /\ probe.out[5] = <<"1",".","2","-","1",".","2">>

(***************************************************************************)
(* C14.  Fields absent from the raw configuration take their defaults:     *)
(* registry docker.io, dockerfile Dockerfile, context ".", push true,      *)
(* no_cache false, and the tags ["{{version}}", "latest"] when the tag     *)
(* list is absent or empty; a configuration holding only an image resolves *)
(* version v1.2.3 to the tags ["1.2.3", "latest"] and pushes them.         *)
(***************************************************************************)
ImageOnlyConfig == [NoConfig EXCEPT !.image = Some(<<"o","/","a">>)]
DefaultResolved == SelectSeq(<<Stripped(req.Version), <<"l","a","t","e","s","t">>>>, NonEmpty)
Tags123Latest == <<<<"1",".","2",".","3">>, <<"l","a","t","e","s","t">>>>

C14_Defaults ==
    InExecute =>
        /\ req.Config.registry = None => cfg.Registry = <<"d","o","c","k","e","r",".","i","o">>
        /\ req.Config.dockerfile = None =>
              cfg.Dockerfile = <<"D","o","c","k","e","r","f","i","l","e">>
        /\ req.Config.context = None => cfg.Context = <<".">>
        /\ req.Config.push = None => cfg.Push
        /\ req.Config.no_cache = None => ~cfg.NoCache
        /\ (/\ PostPublish
            /\ req.Config.tags \in {None, Some(<<>>)}
            /\ pc \in {"login", "build", "push"} \/ resp.Success) =>
              resolvedTags = DefaultResolved
        /\ (/\ PostPublish /\ ~req.DryRun /\ Done /\ resp.Success
            /\ req.Config = ImageOnlyConfig /\ req.Version = <<"v","1",".","2",".","3">>
            /\ req.Env = NoEnv) =>
              /\ resolvedTags = Tags123Latest
              /\ resp.Outputs.tags = Tags123Latest
              /\ resp.Outputs.pushed
              /\ Len(calls) = 3
              /\ calls[2].args = <<<<"p","u","s","h">>, <<"o","/","a",":","1",".","2",".","3">>>>
              /\ calls[3].args = <<<<"p","u","s","h">>, <<"o","/","a",":","l","a","t","e","s","t">>>>

C14_Witness ==
    /\ PostPublish /\ ~req.DryRun /\ Done /\ resp.Success
    /\ req.Config = ImageOnlyConfig /\ req.Version = <<"v","1",".","2",".","3">> /\ req.Env = NoEnv
    /\ resolvedTags = Tags123Latest
    /\ Cardinality(PushIndices) = 2

C14_WitnessEmptyTagList ==
    /\ PostPublish /\ Done /\ resp.Success
    /\ req.Config.tags = Some(<<>>)
    /\ resolvedTags = Tags123Latest

(***************************************************************************)
(* C17.  For any hook other than post-publish, Execute returns             *)
(* Success=true with a "not handled" message naming the hook and a nil     *)
(* error, issues no external command and runs no validator: it succeeds    *)
(* even for a configuration that fails validation under post-publish.      *)
(***************************************************************************)
C17_UnhandledHookSucceeds ==
    (InExecute /\ req.Hook # "post-publish") =>
        /\ Done
        /\ resp.Success
        /\ resp.Message = [text |-> "Hook %s not handled", hook |-> req.Hook, n |-> 0]
        /\ resp.Error = NoError
        /\ resp.GoError = "nil"
        /\ resp.Outputs = NoOutputs
        /\ calls = <<>>
        /\ resolvedTags = <<>> /\ imageNames = <<>>

C17_Witness ==
    /\ Done /\ req.Hook = "pre-init"
    /\ BadImage /\ BadRegistry
    /\ resp.Success /\ calls = <<>>

(***************************************************************************)
(* C15.  dockerLogin issues exactly one command, docker with the arguments *)
(* [login, <registry>?, -u, <username>, --password-stdin], the registry    *)
(* argument present iff the registry is non-empty and not docker.io; the   *)
(* password is delivered on standard input only and is never an argument.  *)
(***************************************************************************)
LoggedIn == probe.fn = "login" /\ probe.done

C15_LoginCommand ==
    LoggedIn =>
        LET c == probe.args[1]
            withRegistry == c.Registry # <<>> /\ c.Registry # <<"d","o","c","k","e","r",".","i","o">>
            tail == <<<<"-","u">>, c.Username,
                      <<"-","-","p","a","s","s","w","o","r","d","-","s","t","d","i","n">>>>
        IN  /\ Len(probe.out) = 1
            /\ probe.out[1].name = <<"d","o","c","k","e","r">>
            /\ probe.out[1].args =
                  IF withRegistry THEN <<<<"l","o","g","i","n">>, c.Registry>> \o tail
                  ELSE <<<<"l","o","g","i","n">>>> \o tail
            /\ probe.out[1].stdin = <<c.Password>>
            /\ c.Password = <<"p">> =>
                  \A i \in 1..Len(probe.out[1].args) : probe.out[1].args[i] # c.Password

C15_Witness ==
    /\ LoggedIn
    /\ probe.args[1].Registry = <<"g",".","i","o">>
    /\ probe.args[1].Password = <<"p">>
    /\ Len(probe.out[1].args) = 5
    /\ probe.out[1].args[2] = <<"g",".","i","o">>

C15_WitnessDefaultRegistry ==
    /\ LoggedIn
    /\ probe.args[1].Registry = <<"d","o","c","k","e","r",".","i","o">>
    /\ probe.args[1].Password = <<"p">>
    /\ Len(probe.out[1].args) = 4

C15_WitnessEmptyRegistry ==
    /\ LoggedIn
    /\ probe.args[1].Registry = <<>>
    /\ Len(probe.out[1].args) = 4

(***************************************************************************)
(* C16.  dockerBuild issues exactly one docker command whose arguments     *)
(* are, in this order: build; one -t pair per image reference in order;    *)
(* -f <dockerfile> (Dockerfile when empty); the user --build-arg pairs;    *)
(* --build-arg VERSION=<raw version, leading 'v' kept>; --platform with    *)
(* the platforms comma-joined only if any; the --label pairs; one          *)
(* --cache-from pair per source in order; --no-cache only if set;          *)
(* --target only if non-empty; and the build context ("." when empty) as   *)
(* the last argument.                                                      *)
(***************************************************************************)
Built == probe.fn = "build" /\ probe.done

\* flag, values[1], flag, values[2], ...
Pairs(flag, values) ==
    [i \in 1..(2 * Len(values)) |-> IF i % 2 = 1 THEN flag ELSE values[i \div 2]]

\* key=value for the keys in the given order
Assignments(m, order) ==
    [i \in 1..Len(order) |-> order[i] \o <<"=">> \o m[order[i]]]

KeyOrders(m) ==
    {o \in [1..Cardinality(DOMAIN m) -> DOMAIN m] :
        \A i, j \in 1..Cardinality(DOMAIN m) : i # j => o[i] # o[j]}

RECURSIVE CommaJoined(_)
CommaJoined(parts) ==
    IF Len(parts) = 0 THEN <<>>
    ELSE IF Len(parts) = 1 THEN parts[1]
    ELSE parts[1] \o <<",">> \o CommaJoined(Tail(parts))

ExpectedBuildArgs(c, names, raw, argOrder, labelOrder) ==
    <<ArgBuild>>
    \o Pairs(ArgT, names)
    \o <<ArgF, IF c.Dockerfile = <<>> THEN <<"D","o","c","k","e","r","f","i","l","e">>
               ELSE c.Dockerfile>>
    \o Pairs(ArgBuildArg, Assignments(c.BuildArgs, argOrder))
    \o <<ArgBuildArg, <<"V","E","R","S","I","O","N","=">> \o raw>>
    \o (IF c.Platforms # <<>> THEN <<ArgPlatform, CommaJoined(c.Platforms)>> ELSE <<>>)
    \o Pairs(ArgLabel, Assignments(c.Labels, labelOrder))
    \o Pairs(ArgCacheFrom, c.CacheFrom)
    \o (IF c.NoCache THEN <<ArgNoCache>> ELSE <<>>)
    \o (IF c.Target # <<>> THEN <<ArgTarget, c.Target>> ELSE <<>>)
    \o <<IF c.Context = <<>> THEN <<".">> ELSE c.Context>>

C16_BuildCommand ==
    Built =>
        /\ Len(probe.out) = 1
        /\ probe.out[1].name = <<"d","o","c","k","e","r">>
        /\ probe.out[1].stdin = None
        /\ \E argOrder \in KeyOrders(probe.args[1].BuildArgs),
              labelOrder \in KeyOrders(probe.args[1].Labels) :
              probe.out[1].args = ExpectedBuildArgs(probe.args[1], probe.args[2],
                                                    probe.args[3], argOrder, labelOrder)

\* every option set
C16_Witness ==
    /\ Built
    /\ probe.args[3] = <<"v","1",".","2",".","3">>
    /\ Len(probe.args[2]) = 2
    /\ Len(probe.out[1].args) = 27
    /\ probe.out[1].args[7] = <<"D",".","p">>
    /\ probe.out[1].args[13] = <<"V","E","R","S","I","O","N","=","v","1",".","2",".","3">>
    /\ probe.out[1].args[15] = <<"l","/","a",",","l","/","b">>
    /\ probe.out[1].args[24] = <<"-","-","n","o","-","c","a","c","h","e">>
    /\ probe.out[1].args[27] = <<".","/","a","p","p">>

\* nothing set: build -f Dockerfile --build-arg VERSION=... .
C16_WitnessBare ==
    /\ Built
    /\ probe.args[1] = ZeroCfg /\ probe.args[2] = <<>>
    /\ Len(probe.out[1].args) = 6
    /\ probe.out[1].args[3] = <<"D","o","c","k","e","r","f","i","l","e">>
    /\ probe.out[1].args[6] = <<".">>

(***************************************************************************)
(* C18.  Validate reports valid=false iff at least one check fails (image  *)
(* missing, empty or failing validateImageName; registry failing           *)
(* validateRegistry; dockerfile or context failing validatePath; a         *)
(* build_args or labels key failing its key validator; a configured tag    *)
(* without "{{" failing validateTag); it records an error for every        *)
(* failing item instead of stopping at the first, never reports an error   *)
(* for a tag containing "{{", and always returns a nil Go error.           *)
(***************************************************************************)
Validated == pc = "validated"

Configured(opt, default) == IF opt # None /\ opt[1] # <<>> THEN opt[1] ELSE default

VImageFails ==
    \/ vconfig.image = None
    \/ vconfig.image = Some(<<>>)
    \/ validateImageName(vconfig.image[1]) # ""
VRegistryFails ==
    validateRegistry(Configured(vconfig.registry, <<"d","o","c","k","e","r",".","i","o">>)) # ""
VDockerfileFails ==
    validatePath(Configured(vconfig.dockerfile, <<"D","o","c","k","e","r","f","i","l","e">>)) # ""
VContextFails == validatePath(Configured(vconfig.context, <<".">>)) # ""
VBadArgKeys ==
    IF vconfig.build_args = None THEN {}
    ELSE {k \in DOMAIN vconfig.build_args[1] : validateBuildArgKey(k) # ""}
VBadLabelKeys ==
    IF vconfig.labels = None THEN {}
    ELSE {k \in DOMAIN vconfig.labels[1] : validateLabelKey(k) # ""}
VTags == IF vconfig.tags = None THEN <<>> ELSE vconfig.tags[1]
HasTemplateMark(tag) == \E i \in 1..(Len(tag) - 1) : tag[i] = "{" /\ tag[i + 1] = "{"
VBadTagIndices ==
    {i \in 1..Len(VTags) : ~HasTemplateMark(VTags[i]) /\ validateTag(VTags[i]) # ""}

ErrorsFor(field) == {i \in 1..Len(vresp.Errors) : vresp.Errors[i].field = field}
Flag(b) == IF b THEN 1 ELSE 0

C18_ValidateReportsEveryFailure ==
    Validated =>
        /\ vresp.GoError = "nil"
        /\ calls = <<>>
        /\ vresp.Valid <=>
              ~(\/ VImageFails \/ VRegistryFails \/ VDockerfileFails \/ VContextFails
                \/ VBadArgKeys # {} \/ VBadLabelKeys # {} \/ VBadTagIndices # {})
        /\ vresp.Valid <=> vresp.Errors = <<>>
        /\ Cardinality(ErrorsFor("image")) = Flag(VImageFails)
        /\ Cardinality(ErrorsFor("registry")) = Flag(VRegistryFails)
        /\ Cardinality(ErrorsFor("dockerfile")) = Flag(VDockerfileFails)
        /\ Cardinality(ErrorsFor("context")) = Flag(VContextFails)
        /\ Cardinality(ErrorsFor("build_args")) = Cardinality(VBadArgKeys)
        /\ \A k \in VBadArgKeys : \E i \in ErrorsFor("build_args") : vresp.Errors[i].subject = k
        /\ Cardinality(ErrorsFor("labels")) = Cardinality(VBadLabelKeys)
        /\ \A k \in VBadLabelKeys : \E i \in ErrorsFor("labels") : vresp.Errors[i].subject = k
        /\ Cardinality(ErrorsFor("tags")) = Cardinality(VBadTagIndices)
        /\ \A t \in VBadTagIndices : \E i \in ErrorsFor("tags") : vresp.Errors[i].subject = VTags[t]
        /\ \A i \in ErrorsFor("tags") : ~HasTemplateMark(vresp.Errors[i].subject)
        /\ Len(vresp.Errors) =
              Flag(VImageFails) + Flag(VRegistryFails) + Flag(VDockerfileFails)
                  + Flag(VContextFails) + Cardinality(VBadArgKeys)
                  + Cardinality(VBadLabelKeys) + Cardinality(VBadTagIndices)

\* several failing items, each with its error
C18_Witness ==
    /\ Validated /\ ~vresp.Valid
    /\ VImageFails /\ VRegistryFails
    /\ Cardinality(VBadArgKeys) = 2
    /\ Len(vresp.Errors) = 4

\* a template tag that is no valid tag, passed over
C18_WitnessTemplateTag ==
    /\ Validated /\ vresp.Valid
    /\ \E i \in 1..Len(VTags) : HasTemplateMark(VTags[i]) /\ validateTag(VTags[i]) # ""

C18_WitnessEmptyImage ==
    /\ Validated /\ vconfig.image = Some(<<>>)
    /\ Cardinality(ErrorsFor("image")) = 1
    /\ vresp.Errors[1].msg = "Docker image name is required"

(***************************************************************************)
(* Vocabulary of the properties of path validation.                        *)
(***************************************************************************)
PathChecked == probe.fn = "path" /\ probe.done
ProbePath == probe.args[2]
PathRejected == probe.err # ""

\* the slash-separated segments of a path
PathSegments(path) == Split(path, "/")
Absolute(path) == path # <<>> /\ path[1] = "/"
HasDotDotSegment(path) ==
    \E i \in 1..Len(PathSegments(path)) : PathSegments(path)[i] = <<".", ".">>
BeginsWithDots(seg) == Len(seg) >= 2 /\ seg[1] = "." /\ seg[2] = "."

\* walking the segments of a relative path from the working directory, a
\* ".." is met with nothing left to go back over
RECURSIVE ClimbsAbove(_, _, _)
ClimbsAbove(segs, i, depth) ==
    IF i > Len(segs) THEN FALSE
    ELSE IF segs[i] = <<>> \/ segs[i] = <<".">> THEN ClimbsAbove(segs, i + 1, depth)
    ELSE IF segs[i] = <<".", ".">>
    THEN depth = 0 \/ ClimbsAbove(segs, i + 1, depth - 1)
    ELSE ClimbsAbove(segs, i + 1, depth + 1)

(***************************************************************************)
(* C19 as stated.  Path validation rejects every absolute path and every   *)
(* path containing a '..' segment, and accepts every relative path without *)
(* one (and the empty path).                                               *)
(***************************************************************************)
C19_RejectsEveryDotDotSegment ==
    PathChecked => (PathRejected <=> (Absolute(ProbePath) \/ HasDotDotSegment(ProbePath)))

(***************************************************************************)
(* C19.  Path validation accepts the empty path and judges every other     *)
(* path by its cleaned form: it rejects the path iff the cleaned form is   *)
(* absolute, begins with ".." or contains "/..".  So it rejects every      *)
(* absolute path and every path that climbs above the working directory,   *)
(* it accepts a relative path whose ".." segments are cancelled by the     *)
(* segments before them, and it accepts every relative path none of whose  *)
(* segments begins with "..".  This holds for the dockerfile path and the  *)
(* build-context path alike.                                               *)
(***************************************************************************)
C19_PathValidation ==
    PathChecked =>
        /\ ProbePath = <<>> => ~PathRejected
        /\ Absolute(ProbePath) => PathRejected
        /\ (~Absolute(ProbePath) /\ ClimbsAbove(PathSegments(ProbePath), 1, 0)) => PathRejected
        /\ (/\ ~Absolute(ProbePath)
            /\ \A i \in 1..Len(PathSegments(ProbePath)) :
                  ~BeginsWithDots(PathSegments(ProbePath)[i])) => ~PathRejected
        /\ PathRejected <=>
              /\ ProbePath # <<>>
              /\ \/ Clean(ProbePath)[1] = "/"
                 \/ BeginsWithDots(Clean(ProbePath))
                 \/ \E i \in 1..(Len(Clean(ProbePath)) - 2) :
                       /\ Clean(ProbePath)[i] = "/"
                       /\ Clean(ProbePath)[i + 1] = "."
                       /\ Clean(ProbePath)[i + 2] = "."
        /\ PathRejected =>
              /\ Len(probe.out) = 1
              /\ probe.out[1].cause = probe.err
              /\ probe.out[1].kind = (IF probe.args[1] = "dockerfile"
                                      THEN "invalid dockerfile path"
                                      ELSE "invalid build context path")
        /\ ~PathRejected => probe.out = <<>>

\* a ".." segment that is cancelled: accepted
C19_Witness ==
    /\ PathChecked /\ probe.args[1] = "dockerfile"
    /\ ProbePath = <<"a", "/", ".", ".", "/">>
    /\ ~PathRejected

\* no ".." segment, yet rejected
C19_WitnessDots ==
    /\ PathChecked /\ probe.args[1] = "context"
    /\ ProbePath = <<"a", "/", ".", ".", "a">>
    /\ PathRejected

C19_WitnessClimb ==
    /\ PathChecked /\ probe.args[1] = "context"
    /\ ProbePath = <<".", ".", "/", "a">>
    /\ PathRejected

(***************************************************************************)
(* C20.  validateImageName accepts a name iff it is non-empty, at most 256 *)
(* characters long, starts and ends with an alphanumeric with only         *)
(* alphanumerics, '.', '_', '/', '-' in between (so it has at least two    *)
(* characters and no ':'), and does not contain the substring '..'; every  *)
(* other name is rejected.                                                 *)
(***************************************************************************)
NameChecked == probe.fn = "image" /\ probe.done
ProbeName == probe.args[1]
AlnumChars ==
    {"a","b","c","d","e","f","g","h","i","j","k","l","m","n","o","p","q","r","s","t","u",
     "v","w","x","y","z","A","B","C","D","E","F","G","H","I","J","K","L","M","N","O","P",
     "Q","R","S","T","U","V","W","X","Y","Z","0","1","2","3","4","5","6","7","8","9"}

C20_WitnessDotDot ==
    /\ NameChecked
    /\ ProbeName = <<"a", ".", ".", "Z">>
    /\ probe.err = "image name cannot contain '..'"

C20_WitnessLength ==
    /\ NameChecked
    /\ Len(ProbeName) = 257
    /\ probe.err = "image name too long (max 256 characters)"

C20_WitnessLongest ==
    /\ NameChecked
    /\ Len(ProbeName) = 256
    /\ probe.err = ""

(***************************************************************************)
(* C21.  validateRegistry always accepts the empty string and the literal  *)
(* docker.io; any other registry is accepted iff it is at most 256         *)
(* characters long and is a hostname starting with an alphanumeric         *)
(* followed by alphanumerics, '.' or '-', with an optional :<digits> port  *)
(* suffix.                                                                 *)
(***************************************************************************)
RegistryChecked == probe.fn = "registry" /\ probe.done
DigitChars == {"0","1","2","3","4","5","6","7","8","9"}
LetterChars == AlnumChars \ DigitChars

\* the first n characters of s are a hostname
HostName(s, n) ==
    /\ n >= 1
    /\ s[1] \in AlnumChars
    /\ \A i \in 2..n : s[i] \in AlnumChars \cup {".", "-"}

\* a hostname, or a hostname, a colon and one or more digits
HostWithOptionalPort(s) ==
    LET colons == {i \in 1..Len(s) : s[i] = ":"}
        colon == CHOOSE i \in colons : TRUE
    IN  IF colons = {} THEN HostName(s, Len(s))
        ELSE /\ Cardinality(colons) = 1
             /\ HostName(s, colon - 1)
             /\ colon < Len(s)
             /\ \A j \in (colon + 1)..Len(s) : s[j] \in DigitChars

C21_RegistryAccepted ==
    RegistryChecked =>
        LET r == probe.args[1]
        IN  /\ r = <<>> => probe.err = ""
            /\ r = <<"d","o","c","k","e","r",".","i","o">> => probe.err = ""
            /\ (r # <<>> /\ r # <<"d","o","c","k","e","r",".","i","o">>) =>
                  (probe.err = "" <=> (Len(r) <= 256 /\ HostWithOptionalPort(r)))

C21_Witness ==
    /\ RegistryChecked
    /\ probe.args[1] = <<"a", ":", "0", "0">>
    /\ probe.err = ""

C21_WitnessNoPortDigits ==
    /\ RegistryChecked
    /\ probe.args[1] = <<"a", ":">>
    /\ probe.err = "invalid registry URL format"

C21_WitnessTooLong ==
    /\ RegistryChecked
    /\ Len(probe.args[1]) = 257
    /\ HostWithOptionalPort(probe.args[1])
    /\ probe.err = "registry URL too long"

C21_WitnessLongest ==
    /\ RegistryChecked
    /\ Len(probe.args[1]) = 256
    /\ \E i \in 1..256 : probe.args[1][i] = ":"
    /\ probe.err = ""

(***************************************************************************)
(* C22 as stated.  validateBuildArgKey accepts a key iff it is a letter or *)
(* underscore followed by letters, digits or underscores; validateLabelKey *)
(* accepts a key iff it is non-empty, at most 256 characters, starts with  *)
(* a letter, ends with an alphanumeric and has only alphanumerics, '.',    *)
(* '_', '-' in between.                                                    *)
(***************************************************************************)
BuildArgKeyChecked == probe.fn = "buildarg" /\ probe.done
LabelKeyChecked == probe.fn = "label" /\ probe.done
ProbeKey == probe.args[1]

IdentifierLike(k) ==
    /\ Len(k) >= 1
    /\ k[1] \in LetterChars \cup {"_"}
    /\ \A i \in 2..Len(k) : k[i] \in AlnumChars \cup {"_"}

LabelShape(k) ==
    /\ Len(k) <= 256
    /\ k[1] \in LetterChars
    /\ k[Len(k)] \in AlnumChars
    /\ \A i \in 2..(Len(k) - 1) : k[i] \in AlnumChars \cup {".", "_", "-"}

C22_KeysNonEmptyLabel ==
    /\ BuildArgKeyChecked => (probe.err = "" <=> IdentifierLike(ProbeKey))
    /\ LabelKeyChecked => (probe.err = "" <=> (Len(ProbeKey) >= 1 /\ LabelShape(ProbeKey)))

(***************************************************************************)
(* C22.  validateBuildArgKey accepts a key iff it is a letter or           *)
(* underscore followed by letters, digits or underscores (keys with        *)
(* hyphens, dots or '=' and the empty key are rejected); validateLabelKey  *)
(* accepts a key iff it has at least two and at most 256 characters,       *)
(* starts with a letter, ends with an alphanumeric and has only            *)
(* alphanumerics, '.', '_', '-' in between: a key of one letter is         *)
(* rejected.                                                               *)
(***************************************************************************)
C22_KeyValidators ==
    /\ BuildArgKeyChecked =>
          /\ probe.err = "" <=> IdentifierLike(ProbeKey)
          /\ (\E i \in 1..Len(ProbeKey) : ProbeKey[i] \in {"-", ".", "="}) => probe.err # ""
          /\ ProbeKey = <<>> => probe.err # ""
    /\ LabelKeyChecked =>
          /\ probe.err = "" <=> (Len(ProbeKey) >= 2 /\ LabelShape(ProbeKey))
          /\ Len(ProbeKey) = 1 => probe.err # ""

\* a label key of one letter
C22_Witness ==
    /\ LabelKeyChecked
    /\ ProbeKey = <<"a">>
    /\ probe.err = "invalid label key: must be alphanumeric with dots, dashes, or underscores"

C22_WitnessLabel ==
    /\ LabelKeyChecked
    /\ ProbeKey = <<"a", ".", "-", "0">>
    /\ probe.err = ""

C22_WitnessHyphen ==
    /\ BuildArgKeyChecked
    /\ ProbeKey = <<"a", "-", "Z">>
    /\ probe.err # ""

C22_WitnessIdentifier ==
    /\ BuildArgKeyChecked
    /\ ProbeKey = <<"_", "Z", "0">>
    /\ probe.err = ""

(***************************************************************************)
(* C23.  If the push of the k-th image reference fails, the pushes issued  *)
(* are exactly those of the first k references, in tag order, the first    *)
(* k - 1 of them successful; no push of a later reference and no           *)
(* compensating command (untag, remove, logout, re-build) follows, and the *)
(* error names the reference whose push failed.                            *)
(***************************************************************************)
PushFailed ==
    /\ calls # <<>>
    /\ calls[Len(calls)].args[1] = <<"p","u","s","h">>
    /\ results[Len(calls)] # ""

C23_FailedPushIsLast ==
    /\ \A i \in 1..Len(calls) :
          calls[i].args[1] \in {<<"l","o","g","i","n">>, <<"b","u","i","l","d">>,
                                <<"p","u","s","h">>}
    /\ \A i \in 1..Len(calls) :
          (calls[i].args[1] = <<"p","u","s","h">> /\ results[i] # "") => i = Len(calls)
    /\ PushFailed =>
          LET first == CHOOSE i \in 1..Len(calls) :
                          /\ calls[i].args[1] = <<"p","u","s","h">>
                          /\ \A j \in 1..(i - 1) : calls[j].args[1] # <<"p","u","s","h">>
              k == Len(calls) - first + 1
          IN  /\ Done
              /\ ~resp.Success
              /\ k <= Len(imageNames)
              /\ Cardinality({i \in 1..(first - 1) :
                                 calls[i].args[1] = <<"b","u","i","l","d">>}) = 1
              /\ \A i \in 1..k : calls[first + i - 1].args = <<<<"p","u","s","h">>, imageNames[i]>>
              /\ \A i \in 1..(k - 1) : results[first + i - 1] = ""
              /\ resp.Error = [kind |-> "failed to push image", subject |-> imageNames[k],
                               cause |-> results[Len(calls)]]

\* the second of four pushes fails: the third and fourth are never issued
C23_Witness ==
    /\ Done /\ PushFailed
    /\ Len(imageNames) = 4
    /\ Len(calls) = 3
    /\ calls[3].args[2] = imageNames[2]
    /\ results = <<"", "", "exit status 1">>
    /\ resp.Error.subject = imageNames[2]

(***************************************************************************)
(* C24.  In every reachable execution, each image reference of an issued   *)
(* build (-t) or push command is [registry/]image:tag where the image      *)
(* passed validateImageName, the registry passed validateRegistry and the  *)
(* tag passed validateTag (non-empty, at most 128 characters, starting     *)
(* with an alphanumeric, only alphanumerics, '.', '_', '-'), and the -f    *)
(* and context arguments passed validatePath; no unvalidated value of      *)
(* these fields ever reaches a command line.                               *)
(***************************************************************************)
TagShape(t) ==
    /\ Len(t) >= 1
    /\ Len(t) <= 128
    /\ t[1] \in AlnumChars
    /\ \A i \in 2..Len(t) : t[i] \in AlnumChars \cup {".", "_", "-"}

\* ref is [registry/]image:tag for the configuration in force and a valid tag
ValidatedReference(ref) ==
    \E i \in 1..Len(resolvedTags) :
        /\ ref = (IF cfg.Registry \in {<<>>, <<"d","o","c","k","e","r",".","i","o">>}
                  THEN cfg.Image ELSE cfg.Registry \o <<"/">> \o cfg.Image)
                     \o <<":">> \o resolvedTags[i]
        /\ validateTag(resolvedTags[i]) = ""
        /\ TagShape(resolvedTags[i])

C24_OnlyValidatedValuesInCommands ==
    calls # <<>> =>
        /\ validateImageName(cfg.Image) = ""
        /\ validateRegistry(cfg.Registry) = ""
        /\ validatePath(cfg.Dockerfile) = ""
        /\ validatePath(cfg.Context) = ""
        /\ \A c \in 1..Len(calls) :
              /\ calls[c].args[1] = <<"p","u","s","h">> =>
                    /\ Len(calls[c].args) = 2
                    /\ ValidatedReference(calls[c].args[2])
              /\ calls[c].args[1] = <<"b","u","i","l","d">> =>
                    LET args == calls[c].args
                        n == Len(TFlagsFrom(args, 2))
                    IN  /\ n = Len(resolvedTags)
                        /\ \A i \in 1..n : ValidatedReference(args[2 * i + 1])
                        /\ args[2 * n + 2] = <<"-","f">>
                        /\ args[2 * n + 3] = cfg.Dockerfile
                        /\ args[Len(args)] = cfg.Context

\* registry, dockerfile and context all configured and all on the command line
C24_Witness ==
    /\ Done /\ resp.Success
    /\ req.Config.registry # None /\ req.Config.dockerfile # None /\ req.Config.context # None
    /\ Len(calls) = 3
    /\ calls[1].args[2 * 2 + 3] = req.Config.dockerfile[1]
    /\ calls[1].args[Len(calls[1].args)] = req.Config.context[1]
    /\ ValidatedReference(calls[3].args[2])

(***************************************************************************)
(* C25                                                                     *)
(***************************************************************************)
\* nothing of an earlier invocation is left when the plugin waits for the
\* next one: it is in the state it had after construction
FreshState ==
    /\ req = NoRequest
    /\ resolvedTags = <<>> /\ imageNames = <<>> /\ pushIdx = 0
    /\ calls = <<>> /\ results = <<>>
    /\ resp = NoResponse
    /\ vconfig = NoConfig /\ vresp = NoValidateResponse
    /\ plugin = [executor |-> "nil"]

\* a step of Execute or Validate that is not the return to the host
WithinInvocation == pc # "idle" /\ pc' # "idle"

\* C25: no step of Execute or Validate changes the plugin's executor field,
\* and no step after the request was received changes the request and the raw
\* configuration map in it; the configuration in use is the one parsed from
\* this request and its environment; and every invocation starts from the
\* state after construction, so that its result and commands depend on its
\* request, its environment and the executor's responses only.
C25_InvocationsIndependent ==
    /\ [](pc = "idle" => FreshState)
    /\ [](InExecute => cfg = parseConfig(req.Config, req.Env))
    /\ [][/\ plugin' = plugin
          /\ WithinInvocation => (req' = req /\ vconfig' = vconfig)]_vars

\* an Execute has run two commands and finished: the plugin is as constructed
C25_Witness ==
    /\ Done /\ Len(calls) >= 2
    /\ plugin = [executor |-> "nil"]
    /\ cfg = parseConfig(req.Config, req.Env)

\* a Validate has answered: the plugin is as constructed
C25_WitnessValidate ==
    /\ pc = "validated" /\ vconfig # NoConfig
    /\ plugin = [executor |-> "nil"]

(***************************************************************************)
(* C26                                                                     *)
(***************************************************************************)
\* every tag template in force resolves to the empty string
AllResolveToEmpty == \A i \in 1..Len(ResolvedAll) : ResolvedAll[i] = EmptyStr

\* a finished execution, not a dry run, that passed the checks of the
\* configuration and whose login, if there was one, succeeded
PassedToBuild ==
    /\ Done /\ PostPublish /\ ~req.DryRun
    /\ ~SomeValidatorFails
    /\ \A i \in LoginIndices : results[i] = ""

\* C26: when every tag template resolves to the empty string, a non-dry-run
\* execution that passes validation and login still issues exactly one build;
\* that build has no -t flag, no push is issued even with the push flag set,
\* and when the build succeeds the response is Success=true, its message
\* counts 0 tags, its outputs hold an empty tag list and the push flag.
C26_BuildWithoutTags ==
    (PassedToBuild /\ AllResolveToEmpty) =>
        /\ Cardinality(BuildIndices) = 1
        /\ PushIndices = {}
        /\ \A i \in BuildIndices :
              /\ i = Len(calls)
              /\ TFlagValues(calls[i]) = <<>>
              /\ \A j \in 1..Len(calls[i].args) : calls[i].args[j] # <<"-", "t">>
              /\ results[i] = "" =>
                    /\ resp.Success
                    /\ resp.Error.kind = ""
                    /\ resp.Message.text = "Built and pushed Docker image with %d tags"
                    /\ resp.Message.n = 0
                    /\ resp.Outputs.tags = <<>>
                    /\ resp.Outputs.pushed = cfg.Push

\* a successful build without any tag, the push flag set
C26_Witness ==
    /\ PassedToBuild /\ AllResolveToEmpty
    /\ cfg.Push
    /\ Len(calls) = 1 /\ results[1] = ""
    /\ resp.Success /\ resp.Message.n = 0

\* the same after a login, with two templates that both resolve to nothing
C26_WitnessLogin ==
    /\ PassedToBuild /\ AllResolveToEmpty
    /\ Len(TemplatesInForce) = 2
    /\ LoginIndices = {1} /\ BuildIndices = {2}
    /\ resp.Success

(***************************************************************************)
(* C27                                                                     *)
(***************************************************************************)
\* the version strings a release may come with
AnyVersion ==
    { <<"v", "1", ".", "2", ".", "3">>, <<"v", "1", ".", "2">>, <<"v">>,
      <<"1", ".", "0", ".", "0">>, <<"v", "1", ".", "+">>, <<>> }

\* no tag of the configuration handed to Validate contains "{{"
NoTemplateTags == \A i \in 1..Len(VTags) : ~HasTemplateMark(VTags[i])

\* a post-publish Execute on the configuration handed to Validate returns no
\* validation failure, whatever the version and the order of the map keys
ExecuteNeverRejects ==
    \A version \in AnyVersion :
        LET c == parseConfig(vconfig, NoEnv)
        IN  \A argOrder \in Orders(DOMAIN c.BuildArgs), labelOrder \in Orders(DOMAIN c.Labels) :
               Prepared(c, version, argOrder, labelOrder).err = NoError

\* C27 as stated: for every raw configuration in which no tag contains "{{",
\* Validate reporting valid implies that no post-publish Execute on it returns
\* a validation failure, whatever the version.
C27_ValidImpliesExecuteAccepts ==
    (Validated /\ vresp.Valid /\ NoTemplateTags) => ExecuteNeverRejects

\* C27 amended: the same for every raw configuration with at least one tag,
\* none of which contains "{{".  (Without tags Execute resolves the default
\* templates {{version}} and latest, which Validate never sees.)
C27_ValidImpliesExecuteAcceptsGivenTags ==
    (Validated /\ vresp.Valid /\ Len(VTags) > 0 /\ NoTemplateTags) => ExecuteNeverRejects

\* a valid configuration with the literal tag latest and paths of its own
C27_Witness ==
    /\ Validated /\ vresp.Valid
    /\ VTags = << <<"l", "a", "t", "e", "s", "t">> >>
    /\ vconfig.context = << <<".", "/", "a", "p", "p">> >>
    /\ ExecuteNeverRejects

\* Validate stricter than Execute: a configuration it reports invalid for a
\* key with a non-string value, which Execute drops and so accepts
C27_WitnessStricter ==
    /\ Validated /\ ~vresp.Valid
    /\ Len(VTags) > 0 /\ NoTemplateTags
    /\ ExecuteNeverRejects

\* a valid configuration without tags that Execute rejects for a version
C27_WitnessDefaultTags ==
    /\ Validated /\ vresp.Valid /\ VTags = <<>>
    /\ ~ExecuteNeverRejects

(***************************************************************************)
(* C28                                                                     *)
(***************************************************************************)
BeginsWithDash(s) == Len(s) > 0 /\ s[1] = "-"

\* the values that follow the flag -f in a command line
FileFlagValues(call) ==
    {call.args[j + 1] : j \in {k \in 1..(Len(call.args) - 1) : call.args[k] = <<"-", "f">>}}

\* C28: in every command issued, the build context (the last argument of a
\* build), the dockerfile path given to -f and the target of a push do not
\* begin with '-'.
C28_PositionalsNeverOptions ==
    \A i \in 1..Len(calls) :
        /\ IsBuild(calls[i]) =>
              /\ ~BeginsWithDash(calls[i].args[Len(calls[i].args)])
              /\ \A path \in FileFlagValues(calls[i]) : ~BeginsWithDash(path)
        /\ IsPush(calls[i]) => ~BeginsWithDash(calls[i].args[2])

(***************************************************************************)
(* C29                                                                     *)
(***************************************************************************)
\* the positions of the values of a flag in a command line, and the values
FlagValuePositions(args, flag) == {j \in 2..Len(args) : args[j - 1] = flag}
FlagValueSet(args, flag) == {args[j] : j \in FlagValuePositions(args, flag)}
LastFlagValue(args, flag) ==
    LET ps == FlagValuePositions(args, flag)
    IN  IF ps = {} THEN <<>> ELSE args[CHOOSE j \in ps : \A k \in ps : k <= j]

\* two command lines equal except for the order of the user --build-arg
\* values among themselves and of the --label values among themselves
SameArgsButPairOrder(a, b) ==
    /\ Len(a) = Len(b)
    /\ \A j \in 1..Len(a) :
          \/ a[j] = b[j]
          \/ /\ j > 1 /\ a[j - 1] = b[j - 1]
             /\ a[j - 1] \in {<<"-", "-", "b", "u", "i", "l", "d", "-", "a", "r", "g">>,
                              <<"-", "-", "l", "a", "b", "e", "l">>}
    /\ \A flag \in {<<"-", "-", "b", "u", "i", "l", "d", "-", "a", "r", "g">>,
                    <<"-", "-", "l", "a", "b", "e", "l">>} :
          FlagValueSet(a, flag) = FlagValueSet(b, flag)
    /\ LastFlagValue(a, <<"-", "-", "b", "u", "i", "l", "d", "-", "a", "r", "g">>)
          = LastFlagValue(b, <<"-", "-", "b", "u", "i", "l", "d", "-", "a", "r", "g">>)

SameCallsButPairOrder(cs, ds) ==
    /\ Len(cs) = Len(ds)
    /\ \A i \in 1..Len(cs) :
          /\ cs[i].name = ds[i].name
          /\ cs[i].stdin = ds[i].stdin
          /\ SameArgsButPairOrder(cs[i].args, ds[i].args)

\* two responses equal except for the invalid key they name, both keys being
\* invalid keys of the same map of the configuration
SameResponseButKeyNamed(x, y) ==
    \/ x = y
    \/ /\ ~x.Success /\ ~y.Success
       /\ x.Error.kind = y.Error.kind
       /\ x.Message = y.Message /\ x.Outputs = y.Outputs /\ x.GoError = y.GoError
       /\ \/ /\ x.Error.kind = "invalid build arg key"
             /\ {x.Error.subject, y.Error.subject} \subseteq BadArgKeys
          \/ /\ x.Error.kind = "invalid label key"
             /\ {x.Error.subject, y.Error.subject} \subseteq BadLabelKeys

\* the runs of Execute on the request being served with the responses the
\* executor has given, for every order of the four loops over map keys
OtherRuns ==
    {ExecuteRun(req, results, checkArgs, checkLabels, buildArgs, buildLabels) :
        checkArgs \in KeyOrders(cfg.BuildArgs), checkLabels \in KeyOrders(cfg.Labels),
        buildArgs \in KeyOrders(cfg.BuildArgs), buildLabels \in KeyOrders(cfg.Labels)}

\* C29: a finished Execute and any other Execute of the same request in the
\* same environment with the same executor responses issue the same calls and
\* return the same response, except for the order of the user --build-arg
\* values among themselves, the order of the --label values among themselves
\* and the invalid key named; with at most one build arg and at most one
\* label the calls and the response are the same without exception.
C29_DeterministicButMapOrder ==
    (InExecute /\ Done) =>
        \A other \in OtherRuns :
            /\ SameCallsButPairOrder(calls, other.calls)
            /\ SameResponseButKeyNamed(resp, other.resp)
            /\ (Cardinality(DOMAIN cfg.BuildArgs) <= 1 /\ Cardinality(DOMAIN cfg.Labels) <= 1)
                  => (other.calls = calls /\ other.resp = resp)

\* a finished build with two build args that another run gives in the other
\* order
C29_Witness ==
    /\ InExecute /\ Done /\ resp.Success
    /\ Cardinality(DOMAIN cfg.BuildArgs) = 2
    /\ BuildIndices # {}
    /\ \E other \in OtherRuns : other.calls # calls /\ other.resp = resp

\* a rejected configuration with two invalid keys: another run names the other
C29_WitnessKeyNamed ==
    /\ InExecute /\ Done /\ resp.Error.kind = "invalid build arg key"
    /\ \E other \in OtherRuns : other.resp # resp

\* three commands with one build arg: every other run is the same
C29_WitnessSingle ==
    /\ InExecute /\ Done /\ Len(calls) >= 3
    /\ Cardinality(DOMAIN cfg.BuildArgs) = 1
    /\ OtherRuns = {[calls |-> calls, resp |-> resp]}

====
